---- MODULE Spec2Model ----
(***************************************************************************)
(* Model of the App Store Screenshot Generator's coordination core:        *)
(*   - the batch generation orchestrator, handleSubmit of                  *)
(*     src/components/ScreenshotGenerator.tsx, with the remote image       *)
(*     capability generateScreenshot (src/unnamed/part_001) and the        *)
(*     dimension decoder getImageDimensions (src/App.tsx);                 *)
(*   - the long-operation poller generatePromotionalVideo                  *)
(*     (src/unnamed/part_001), with App's mode toggle (src/App.tsx);       *)
(*   - the letterbox resize engine resizeImageBase64 (src/App.tsx).        *)
(*                                                                         *)
(* A JavaScript string is modelled as a sequence of one-character strings, *)
(* so that "WxH" is split and parsed as the code splits and parses it.     *)
(* The strings that are parsed are over the decimal digits, "x", "-" and   *)
(* the letter "a". A JavaScript number that enters the pixel arithmetic of *)
(* the resize engine is modelled as the IEEE 754 double it is.             *)
(***************************************************************************)
EXTENDS Integers, Sequences, FiniteSets, TLC

VARIABLES
    \* ---- ScreenshotGenerator component state (useState) ----
    purpose,          \* Purpose
    screenshotFile,   \* File | null
    selectedSizes,    \* string[]
    isLoading,        \* boolean
    generatedImages,  \* GeneratedImageData[] | null
    error,            \* string | null
    \* ---- the handleSubmit calls, one entry per call followed ----
    pc,               \* "idle" | "reading" | "awaiting"
    call,             \* the values the call closed over
    tasks,            \* generationPromises: one promise per spec of the call
    requests,         \* per spec: the generateContent requests sent for it
    outcome,          \* how the call ended, "running" until it has
    \* ---- generatePromotionalVideo call ----
    vpc,              \* position in the generatePromotionalVideo call followed
    operation,        \* the operation handle held in `operation`
    checks,           \* let checks
    progress,         \* the messages passed to onProgress, in order
    submits,          \* number of ai.models.generateVideos calls
    queries,          \* number of ai.operations.getVideosOperation calls
    script,           \* what the video capability will report from now on
    vresult,          \* the settled value of the promise the call returned
    delays,           \* the delays passed to setTimeout, in order
    vcall,            \* the call followed: its number, its onProgress, where it began
    mode,             \* App's mode: which generator is mounted
    \* ---- resizeImageBase64 call ----
    rpc,              \* position in resizeImageBase64
    rargs,            \* its arguments: the decoded base64, the target size
    canvas,           \* the output canvas, once created
    rresult,          \* the settled value of the returned promise
    \* ---- ScreenshotGenerator: size editing and export state ----
    socialPlatform,   \* SocialPlatform
    customWidth,      \* string
    customHeight,     \* string
    upscalingState,   \* { [key: string]: boolean }
    isDownloadingAll, \* boolean
    exports,          \* the handleDownload calls made, in flight or returned
    downloads,        \* the links clicked, in order
    dall              \* the handleDownloadAll calls and their positions

batchVars == <<purpose, screenshotFile, selectedSizes, isLoading,
               generatedImages, error, pc, call, tasks, requests, outcome>>
videoVars == <<vpc, operation, checks, progress, submits, queries, script,
               vresult, delays, vcall, mode>>
resizeVars == <<rpc, rargs, canvas, rresult>>
editVars == <<socialPlatform, customWidth, customHeight>>
exportVars == <<upscalingState, isDownloadingAll, exports, downloads, dall>>
vars == <<batchVars, videoVars, resizeVars, editVars, exportVars>>

-----------------------------------------------------------------------------
(* JavaScript strings and numbers                                          *)

Digits == <<"0", "1", "2", "3", "4", "5", "6", "7", "8", "9">>

IsDigit(c) == \E k \in 1..10 : Digits[k] = c

DigitVal(c) == (CHOOSE k \in 1..10 : Digits[k] = c) - 1

\* String.prototype.split(sep) for a one-character separator.
RECURSIVE SplitFrom(_, _, _, _)
SplitFrom(s, sep, cur, i) ==
    IF i > Len(s) THEN <<cur>>
    ELSE IF s[i] = sep THEN <<cur>> \o SplitFrom(s, sep, <<>>, i + 1)
    ELSE SplitFrom(s, sep, Append(cur, s[i]), i + 1)

Split(s, sep) == SplitFrom(s, sep, <<>>, 1)

\* Value of a non-empty run of decimal digits.
RECURSIVE DecimalValue(_)
DecimalValue(s) ==
    IF Len(s) = 0 THEN 0
    ELSE 10 * DecimalValue(SubSeq(s, 1, Len(s) - 1)) + DigitVal(s[Len(s)])

AllDigits(s) == \A k \in 1..Len(s) : IsDigit(s[k])

NaN == [kind |-> "NaN"]
Undefined == [kind |-> "undefined"]
Num(n) == [kind |-> "number", val |-> n]

\* Number(s): "" is 0, an optionally signed run of digits is its value,
\* any other string of the alphabet is NaN.
Number(s) ==
    IF Len(s) = 0 THEN Num(0)
    ELSE IF AllDigits(s) THEN Num(DecimalValue(s))
    ELSE IF s[1] = "-" /\ Len(s) > 1 /\ AllDigits(Tail(s))
         THEN Num(0 - DecimalValue(Tail(s)))
    ELSE NaN

\* const [a, b] = resolution.split('x').map(Number): element k, or undefined.
ParsedPart(resolution, k) ==
    LET parts == Split(resolution, "x")
    IN IF k <= Len(parts) THEN Number(parts[k]) ELSE Undefined

\* isNaN(v): true for NaN and for undefined.
IsNaN(v) == v.kind # "number"

\* Template-literal formatting of a non-negative integer.
RECURSIVE FormatNumber(_)
FormatNumber(n) ==
    IF n < 10 THEN <<Digits[n + 1]>>
    ELSE FormatNumber(n \div 10) \o <<Digits[(n % 10) + 1]>>

\* Math.round(n / 2) for an integer n: floor(n/2 + 1/2).
RoundHalf(n) == (n + 1) \div 2

-----------------------------------------------------------------------------
(* JavaScript numbers in arithmetic: IEEE 754 doubles                      *)
(*                                                                         *)
(* A finite double is (-1)^neg * man * 2^exp, with man = 0 or              *)
(* 2^52 <= man < 2^53. The mantissa does not fit the integers of the model *)
(* checker, so a natural number of any size is held as the sequence of its *)
(* digits in base 2^15, least significant first, without leading zeros.    *)
(* Every operation is the exact result rounded to the nearest double, ties *)
(* to even. Overflow, subnormals, infinities and NaN are outside the range *)
(* of the pixel arithmetic modelled.                                       *)

LimbBase == 2^15

Abs(n) == IF n < 0 THEN 0 - n ELSE n

RECURSIVE BigOfNat(_)
BigOfNat(n) ==
    IF n = 0 THEN <<>>
    ELSE <<n % LimbBase>> \o BigOfNat(n \div LimbBase)

RECURSIVE BigTrim(_)
BigTrim(a) ==
    IF Len(a) > 0 /\ a[Len(a)] = 0 THEN BigTrim(SubSeq(a, 1, Len(a) - 1))
    ELSE a

Limb(a, i) == IF i <= Len(a) THEN a[i] ELSE 0

RECURSIVE BigCmpFrom(_, _, _)
BigCmpFrom(a, b, i) ==
    IF i = 0 THEN 0
    ELSE IF a[i] > b[i] THEN 1
    ELSE IF a[i] < b[i] THEN -1
    ELSE BigCmpFrom(a, b, i - 1)

\* -1, 0 or 1 as a < b, a = b or a > b.
BigCmp(a, b) ==
    IF Len(a) > Len(b) THEN 1
    ELSE IF Len(a) < Len(b) THEN -1
    ELSE BigCmpFrom(a, b, Len(a))

RECURSIVE BigAddFrom(_, _, _, _)
BigAddFrom(a, b, i, carry) ==
    IF i > Len(a) /\ i > Len(b) THEN (IF carry = 0 THEN <<>> ELSE <<carry>>)
    ELSE LET sum == Limb(a, i) + Limb(b, i) + carry
         IN <<sum % LimbBase>> \o BigAddFrom(a, b, i + 1, sum \div LimbBase)

BigAdd(a, b) == BigAddFrom(a, b, 1, 0)

RECURSIVE BigSubFrom(_, _, _, _)
BigSubFrom(a, b, i, borrow) ==
    IF i > Len(a) THEN <<>>
    ELSE LET d == a[i] - Limb(b, i) - borrow
         IN IF d < 0 THEN <<d + LimbBase>> \o BigSubFrom(a, b, i + 1, 1)
            ELSE <<d>> \o BigSubFrom(a, b, i + 1, 0)

\* a - b, for a >= b.
BigSub(a, b) == BigTrim(BigSubFrom(a, b, 1, 0))

RECURSIVE BigMulSmallFrom(_, _, _, _)
BigMulSmallFrom(a, k, i, carry) ==
    IF i > Len(a) THEN BigOfNat(carry)
    ELSE LET prod == a[i] * k + carry
         IN <<prod % LimbBase>>
                \o BigMulSmallFrom(a, k, i + 1, prod \div LimbBase)

\* a * k, for 0 <= k <= 2^15.
BigMulSmall(a, k) == IF k = 0 THEN <<>> ELSE BigMulSmallFrom(a, k, 1, 0)

\* a * (2^15)^q.
ShiftLimbs(a, q) == IF Len(a) = 0 THEN <<>> ELSE [i \in 1..q |-> 0] \o a

RECURSIVE BigMul(_, _)
BigMul(a, b) ==
    IF Len(b) = 0 THEN <<>>
    ELSE BigAdd(BigMulSmall(a, b[1]), ShiftLimbs(BigMul(a, Tail(b)), 1))

\* a * 2^n.
BigShl(a, n) == ShiftLimbs(BigMulSmall(a, 2^(n % 15)), n \div 15)

\* The quotient digits 1..i of a divided by k (1 <= k <= 2^15), with rem
\* the remainder carried down from the digits above i.
RECURSIVE BigDivSmallFrom(_, _, _, _)
BigDivSmallFrom(a, k, i, rem) ==
    IF i = 0 THEN <<>>
    ELSE LET cur == rem * LimbBase + a[i]
         IN BigDivSmallFrom(a, k, i - 1, cur % k) \o <<cur \div k>>

\* floor(a / 2^n).
BigShr(a, n) ==
    LET q == n \div 15
        high == IF q >= Len(a) THEN <<>> ELSE SubSeq(a, q + 1, Len(a))
    IN BigTrim(BigDivSmallFrom(high, 2^(n % 15), Len(high), 0))

RECURSIVE SmallBitLength(_)
SmallBitLength(n) == IF n = 0 THEN 0 ELSE 1 + SmallBitLength(n \div 2)

\* The number of binary digits of a.
BitLength(a) ==
    IF Len(a) = 0 THEN 0
    ELSE 15 * (Len(a) - 1) + SmallBitLength(a[Len(a)])

\* One step of binary long division. r is what is left of the dividend, t
\* the divisor times the power of two of the quotient digit sought, q the
\* quotient digits found so far, i the number of digits still to find; ge
\* tells whether t goes into r.
BigDivStepBy(st, ge) ==
    [r |-> IF ge THEN BigSub(st.r, st.t) ELSE st.r,
     t |-> BigShr(st.t, 1),
     q |-> BigAdd(BigMulSmall(st.q, 2), IF ge THEN <<1>> ELSE <<>>),
     i |-> st.i - 1]

BigDivStep(st) == BigDivStepBy(st, BigCmp(st.r, st.t) >= 0)

\* Up to k steps of the division (k >= 1), as long as digits remain.
RECURSIVE BigDivSteps(_, _)
BigDivSteps(st, k) ==
    IF st.i = 0 THEN st
    ELSE IF k = 1 THEN BigDivStep(st)
    ELSE BigDivSteps(BigDivSteps(st, k \div 2), k - (k \div 2))

BigDivResult(st) == [quot |-> st.q, rem |-> st.r]

\* Quotient and remainder of n by d, the quotient having at most k + 1
\* binary digits.
BigDivFrom(n, d, k) ==
    BigDivResult(BigDivSteps([r |-> n, t |-> BigShl(d, k), q |-> <<>>,
                              i |-> k + 1], k + 1))

\* Quotient and remainder of n by d, for d > 0.
BigDivMod(n, d) ==
    BigDivFrom(n, d, IF BitLength(n) > BitLength(d)
                     THEN BitLength(n) - BitLength(d) ELSE 0)

Double(neg, man, exp) == [neg |-> neg, man |-> man, exp |-> exp]

\* A mantissa that rounding has carried to 54 digits is halved.
Normalized(neg, m, e) ==
    IF BitLength(m) = 54 THEN Double(neg, BigShr(m, 1), e + 1)
    ELSE Double(neg, m, e)

\* Round to nearest, ties to even: kept are the 53 leading digits, low the
\* digits dropped, half the weight of the first of them, sticky whether
\* anything is left beyond them.
RoundUp(neg, kept, low, sticky, half, e) ==
    LET lowval == IF Len(low) = 0 THEN 0 ELSE low[1]
        up == \/ lowval > half
              \/ lowval = half /\ (sticky \/ kept[1] % 2 = 1)
    IN Normalized(neg, IF up THEN BigAdd(kept, <<1>>) ELSE kept, e)

RoundKept(neg, q, kept, sticky, drop, e) ==
    RoundUp(neg, kept, BigSub(q, BigShl(kept, drop)), sticky, 2^(drop - 1),
            e + drop)

RoundDropped(neg, q, sticky, drop, e) ==
    RoundKept(neg, q, BigShr(q, drop), sticky, drop, e)

\* The quotient has 54 or 55 binary digits: one or two are dropped.
RoundQuotient(neg, qr, e) ==
    RoundDropped(neg, qr.quot, Len(qr.rem) > 0, BitLength(qr.quot) - 53, e)

\* s is chosen so that n * 2^s / d has 54 or 55 binary digits.
RoundShifted(neg, n, d, e, s) ==
    RoundQuotient(neg,
                  BigDivMod(IF s >= 0 THEN BigShl(n, s) ELSE n,
                            IF s >= 0 THEN d ELSE BigShl(d, 0 - s)),
                  e - s)

\* The double nearest to (-1)^neg * (n / d) * 2^e, ties to even (d > 0).
RoundToDouble(neg, n, d, e) ==
    IF Len(n) = 0 THEN Double(FALSE, <<>>, 0)
    ELSE RoundShifted(neg, n, d, e, 54 + BitLength(d) - BitLength(n))

\* The double of an integer literal or an integer-valued property.
FromInt(n) ==
    LET m == BigOfNat(Abs(n))
    IN IF n = 0 THEN Double(FALSE, <<>>, 0)
       ELSE Double(n < 0, BigShl(m, 53 - BitLength(m)), BitLength(m) - 53)

\* The values a division by zero gives. They keep the fields of a double and
\* carry their class besides.
Infinity(neg) ==
    [neg |-> neg, man |-> <<>>, exp |-> 0, class |-> "Infinity"]
NotANumber == [neg |-> FALSE, man |-> <<>>, exp |-> 0, class |-> "NaN"]
IsFinite(a) == "class" \notin DOMAIN a

\* a / b for finite a and b: x / 0 is an infinity, 0 / 0 is NaN.
FDiv(a, b) ==
    IF Len(b.man) = 0
    THEN IF Len(a.man) = 0 THEN NotANumber ELSE Infinity(a.neg # b.neg)
    ELSE RoundToDouble(a.neg # b.neg, a.man, b.man, a.exp - b.exp)

\* a * b.
FMul(a, b) ==
    RoundToDouble(a.neg # b.neg, BigMul(a.man, b.man), <<1>>, a.exp + b.exp)

\* The mantissa of a over the smaller of the exponents of a and b.
MinExp(a, b) == IF a.exp < b.exp THEN a.exp ELSE b.exp
Aligned(a, b) == BigShl(a.man, a.exp - MinExp(a, b))

\* The signed difference of the magnitudes ma and mb, both over 2^e.
SubAligned(aneg, bneg, ma, mb, e) ==
    IF aneg # bneg THEN RoundToDouble(aneg, BigAdd(ma, mb), <<1>>, e)
    ELSE IF BigCmp(ma, mb) >= 0
    THEN RoundToDouble(aneg, BigSub(ma, mb), <<1>>, e)
    ELSE RoundToDouble(~aneg, BigSub(mb, ma), <<1>>, e)

\* a - b.
FSub(a, b) ==
    SubAligned(a.neg, b.neg, Aligned(a, b), Aligned(b, a), MinExp(a, b))

IsPositive(a) == Len(a.man) > 0 /\ ~a.neg

\* a > b when a or b is not finite: false with a NaN, otherwise decided by
\* the infinity.
NonFiniteGreater(a, b) ==
    IF ~IsFinite(a)
    THEN a.class = "Infinity" /\ ~a.neg
         /\ (IsFinite(b) \/ (b.class = "Infinity" /\ b.neg))
    ELSE b.class = "Infinity" /\ b.neg

\* a > b.
FGreater(a, b) ==
    IF IsFinite(a) /\ IsFinite(b) THEN IsPositive(FSub(a, b))
    ELSE NonFiniteGreater(a, b)

-----------------------------------------------------------------------------
(* Values shared by the component state                                    *)

\* JavaScript null, for the `T | null` state fields.
Null == [kind |-> "null"]

\* A list held in a `GeneratedImageData[] | null` field.
Images(list) == [kind |-> "list", items |-> list]

\* A message: its text, and for a template literal (text with one ${...})
\* the string interpolated into it.
Msg(text) == [text |-> text, arg |-> <<>>]
MsgWith(text, arg) == [text |-> text, arg |-> arg]

\* A File object.
File(name) == [name |-> name]

\* A thrown value: an Error carrying a message, or a value that is no Error.
ErrorValue(m) == [isError |-> TRUE, message |-> m]
NonErrorValue == [isError |-> FALSE]

\* err instanceof Error ? err.message : fallback
MessageOf(err, fallback) == IF err.isError THEN err.message ELSE fallback

-----------------------------------------------------------------------------
(* Bounds and the inputs drawn within them                                 *)

\* Largest number of size specs in a submitted list.
MaxSpecs == 3

Str4x6 == <<"4", "x", "6">>
Str3x5 == <<"3", "x", "5">>
Str2x8 == <<"2", "x", "8">>
Str0x4 == <<"0", "x", "4">>
Str4xa == <<"4", "x", "a">>

\* The "WxH" strings a spec list is drawn from: three valid sizes (one with odd
\* sides), a zero width and a height that is no number.
ResPool == {Str4x6, Str3x5, Str2x8, Str0x4, Str4xa}

\* The lists selectedSizes may hold at a submit: every handler keeps the list
\* free of repeats.
SpecLists ==
    {l \in UNION {[1..n -> ResPool] : n \in 0..MaxSpecs} :
        \A i, j \in 1..Len(l) : l[i] = l[j] => i = j}

\* Largest width or height of a spec written as decimal digits.
MaxSide == 9

\* The strings "WxH" for positive integers W and H, built by formatting and
\* not by parsing.
PositiveSpecs ==
    {FormatNumber(w) \o <<"x">> \o FormatNumber(h) :
        w \in 1..MaxSide, h \in 1..MaxSide}

PositiveSpec(resolution) == resolution \in PositiveSpecs

\* The purposes that handleSubmit distinguishes: 'og-image' and any other.
Purposes == {"app-store", "og-image"}

Files == {File("shot.png")}

\* Base64 payloads the image capability may return, with the decoded size
\* of those that are images.
GoodPayload == "iVBORw0KGgo"
CorruptPayload == "AAAA"
Payloads == {GoodPayload, CorruptPayload}
Decodable(p) == p = GoodPayload
DecodedWidth(p) == 2
DecodedHeight(p) == 3

\* The text of the first non-empty text part of a response without an
\* image.
TextParts == {"blocked by policy"}

\* What a rejected generateContent call throws.
RemoteThrown == {ErrorValue(Msg("Network request failed")), NonErrorValue}

-----------------------------------------------------------------------------
(* handleSubmit: the per-spec generation task                              *)

TargetWidth(resolution) == ParsedPart(resolution, 1)
TargetHeight(resolution) == ParsedPart(resolution, 2)

\* Faulty variant of InvalidResolution: the `<= 0` tests are left out.
InvalidResolutionNaNOnly(resolution) ==
    \/ IsNaN(TargetWidth(resolution))
    \/ IsNaN(TargetHeight(resolution))

\* The guard of `throw new Error(`Invalid resolution: ...`)`.
InvalidResolution(resolution) ==
    \/ IsNaN(TargetWidth(resolution))
    \/ IsNaN(TargetHeight(resolution))
    \/ TargetWidth(resolution).val <= 0
    \/ TargetHeight(resolution).val <= 0

\* Faulty variant of GenerationResolution: the halves are truncated.
GenerationResolutionFloor(resolution, p) ==
    LET w == TargetWidth(resolution).val
        h == TargetHeight(resolution).val
        gw == IF p = "og-image" THEN w ELSE w \div 2
        gh == IF p = "og-image" THEN h ELSE h \div 2
    IN FormatNumber(gw) \o <<"x">> \o FormatNumber(gh)

\* generationResolution: half the target, rounded, unless the purpose is
\* 'og-image'.
GenerationResolution(resolution, p) ==
    LET w == TargetWidth(resolution).val
        h == TargetHeight(resolution).val
        gw == IF p = "og-image" THEN w ELSE RoundHalf(w)
        gh == IF p = "og-image" THEN h ELSE RoundHalf(h)
    IN FormatNumber(gw) \o <<"x">> \o FormatNumber(gh)

\* The arguments of one generateScreenshot call that vary with the spec.
Request(resolution, p) ==
    [generationResolution |-> GenerationResolution(resolution, p),
     targetResolution |-> resolution,
     purpose |-> p]

\* The GeneratedImageData objects handleSubmit builds.
LoadingItem(resolution) ==
    [requestedResolution |-> resolution, status |-> "loading"]

\* Faulty variant of SuccessItem: the decoded dimensions are left out.
SuccessItemNoDimensions(resolution, payload) ==
    [base64 |-> payload,
     requestedResolution |-> resolution,
     status |-> "success"]

SuccessItem(resolution, payload) ==
    [base64 |-> payload,
     actualWidth |-> DecodedWidth(payload),
     actualHeight |-> DecodedHeight(payload),
     requestedResolution |-> resolution,
     status |-> "success"]

ErrorItem(resolution, err) ==
    [requestedResolution |-> resolution,
     status |-> "error",
     error |-> MessageOf(err, Msg("An unknown error occurred."))]

\* A promise of generationPromises: pending on the remote call, pending on
\* getImageDimensions, or fulfilled with its GeneratedImageData.
Pending == [state |-> "pending"]
Decoding(payload) == [state |-> "decoding", payload |-> payload]
Fulfilled(item) == [state |-> "fulfilled", value |-> item]

\* The synchronous part of the async callback of selectedSizes.map: an
\* invalid resolution throws into the callback's own catch; a valid one
\* runs up to the generateContent call inside generateScreenshot.
StartTask(resolution) ==
    IF InvalidResolution(resolution)
    THEN Fulfilled(ErrorItem(resolution,
             ErrorValue(MsgWith("Invalid resolution: ${resolution}", resolution))))
    ELSE Pending

\* The requests the synchronous part of the callback sends for one spec.
StartRequests(resolution, p) ==
    IF InvalidResolution(resolution) THEN <<>>
    ELSE <<Request(resolution, p)>>

\* selectedSizes.map(async (resolution) => ...): every callback runs its
\* synchronous part, in list order, before map returns.
MapTasks(sizes) == [i \in 1..Len(sizes) |-> StartTask(sizes[i])]

\* Faulty variant of MapRequests: the callbacks run one after the other, so
\* only the first spec's request is out when the map returns.
MapRequestsFirstOnly(sizes, p) ==
    [i \in 1..Len(sizes) |->
        IF i = 1 THEN StartRequests(sizes[i], p) ELSE <<>>]

MapRequests(sizes, p) == [i \in 1..Len(sizes) |-> StartRequests(sizes[i], p)]

\* The value a settled Promise.all(generationPromises) resolves to.
AllFulfilled(ts) == \A i \in 1..Len(ts) : ts[i].state = "fulfilled"

\* Faulty variant of PromiseAll: the failed tasks are filtered out.
PromiseAllSuccessful(ts) ==
    SelectSeq([i \in 1..Len(ts) |-> ts[i].value],
              LAMBDA item : item.status = "success")

\* Faulty variant of PromiseAll: the values are collected last to first.
PromiseAllReversed(ts) == [i \in 1..Len(ts) |-> ts[Len(ts) + 1 - i].value]

PromiseAll(ts) == [i \in 1..Len(ts) |-> ts[i].value]


\* A rejected promise.
Rejected(err) == [state |-> "rejected", reason |-> err]

\* Faulty variant of SettleError: the callback has no catch block, and the
\* failure rejects the task's promise.
SettleErrorRethrow(resolution, err) == Rejected(err)

\* The catch block of the callback: the failure becomes the task's own
\* fulfilled value.
SettleError(resolution, err) == Fulfilled(ErrorItem(resolution, err))

\* The return after getImageDimensions resolved.
SettleSuccess(resolution, payload) == Fulfilled(SuccessItem(resolution, payload))

\* Faulty variant of WriteSlot: every callback settles the first promise.
WriteSlotFirst(ts, i, t) == [ts EXCEPT ![1] = t]

\* A callback settles the promise it returned, and no other.
WriteSlot(ts, i, t) == [ts EXCEPT ![i] = t]

\* Faulty variant of FailureRequests: the failed request is sent again.
FailureRequestsRetry(resolution, p) == <<Request(resolution, p)>>

\* The requests the catch block sends for the failed spec: none.
FailureRequests(resolution, p) == <<>>

-----------------------------------------------------------------------------
(* handleSubmit                                                            *)

\* ScreenshotGenerator is mounted: App renders it in mode 'image'.
Mounted == mode = "image"

\* handleSubmit is the onSubmit handler of the form: it runs on every submit
\* event, tests the file and the size list itself and does not test
\* isLoading, so that a call may start while earlier calls are in flight.
\* The variables pc, call, tasks, requests and outcome hold one entry per
\* call followed at a time; the entry of a call that ended is kept until
\* the next call starts.
MaxCalls == 2

\* The specs of all calls in flight at a time, when more than one call is.
MaxInFlight == 2

Slots == 1..MaxCalls

\* What a handleSubmit call closed over, and whether the component that
\* runs it is still mounted.
CallOf(file, sizes, p) ==
    [file |-> file, sizes |-> sizes, purpose |-> p, mounted |-> TRUE]

\* The call of entry c has not returned yet.
Running(c) == pc[c] # "idle"

\* The entries f once a call has started in entry c with the value v: the
\* entries of the calls that ended go back to idle.
Started(f, c, v, idle) ==
    [d \in Slots |-> IF d = c THEN v ELSE IF Running(d) THEN f[d] ELSE idle]

NoCallInFlight == \A c \in Slots : ~Running(c)

\* The entry the next call takes.
FreeSlot == CHOOSE c \in Slots : ~Running(c) /\ \A d \in 1..(c - 1) : Running(d)

\* The number of specs of the calls in flight among the first c entries.
RECURSIVE SpecsInFlightUpTo(_)
SpecsInFlightUpTo(c) ==
    IF c = 0 THEN 0
    ELSE SpecsInFlightUpTo(c - 1)
            + (IF Running(c) THEN Len(call[c].sizes) ELSE 0)

SpecsInFlight == SpecsInFlightUpTo(MaxCalls)

\* State set by the `if (!screenshotFile)` branch.
SubmitNoFile ==
    /\ Mounted
    /\ screenshotFile = Null
    /\ error' = Msg("Please upload a screenshot.")
    /\ UNCHANGED <<purpose, screenshotFile, selectedSizes, isLoading,
                   generatedImages, pc, call, tasks, requests, outcome,
                   videoVars, resizeVars, editVars, exportVars>>

\* Faulty variant of LoadingAfterNoSizes: setIsLoading(false) is left out.
LoadingLeftOn == TRUE

\* isLoading as the `selectedSizes.length === 0` branch leaves it.
LoadingAfterNoSizes == FALSE

\* State set by the `selectedSizes.length === 0` branch.
SubmitNoSizes ==
    /\ Mounted
    /\ screenshotFile # Null
    /\ Len(selectedSizes) = 0
    /\ error' = Msg("Please select at least one output size.")
    /\ isLoading' = LoadingAfterNoSizes
    /\ generatedImages' = Null
    /\ UNCHANGED <<purpose, screenshotFile, selectedSizes,
                   pc, call, tasks, requests, outcome,
                   videoVars, resizeVars, editVars, exportVars>>

\* The placeholders of the first setGeneratedImages call.
Placeholders(sizes) == [i \in 1..Len(sizes) |-> LoadingItem(sizes[i])]

\* The call passes both checks and suspends at `await fileToBase64(...)`.
SubmitStart ==
    /\ Mounted
    /\ screenshotFile # Null
    /\ Len(selectedSizes) > 0
    /\ \E c \in Slots : ~Running(c)
    /\ NoCallInFlight \/ SpecsInFlight + Len(selectedSizes) <= MaxInFlight
    /\ isLoading' = TRUE
    /\ error' = Null
    /\ generatedImages' = Images(Placeholders(selectedSizes))
    /\ call' = Started(call, FreeSlot,
                       CallOf(screenshotFile, selectedSizes, purpose),
                       CallOf(Null, <<>>, "app-store"))
    /\ tasks' = Started(tasks, FreeSlot, <<>>, <<>>)
    /\ requests' = Started(requests, FreeSlot, <<>>, <<>>)
    /\ pc' = [pc EXCEPT ![FreeSlot] = "reading"]
    /\ outcome' = Started(outcome, FreeSlot, "running", "none")
    /\ UNCHANGED <<purpose, screenshotFile, selectedSizes,
                   videoVars, resizeVars, editVars, exportVars>>

\* Faulty variant of CatchSetup: there is no finally block.
CatchSetupNoFinally(c, err) ==
    /\ error' = MessageOf(err, Msg("An error occurred during initial setup."))
    /\ generatedImages' = Null
    /\ pc' = [pc EXCEPT ![c] = "idle"]
    /\ outcome' = [outcome EXCEPT ![c] = "setupError"]
    /\ UNCHANGED isLoading

\* The outer catch and finally blocks of call c.
CatchSetup(c, err) ==
    /\ error' = MessageOf(err, Msg("An error occurred during initial setup."))
    /\ generatedImages' = Null
    /\ isLoading' = FALSE
    /\ pc' = [pc EXCEPT ![c] = "idle"]
    /\ outcome' = [outcome EXCEPT ![c] = "setupError"]

\* Call c ends in a component that was unmounted: its state updates are
\* dropped.
EndUnmounted(c) ==
    /\ pc' = [pc EXCEPT ![c] = "idle"]
    /\ outcome' = [outcome EXCEPT ![c] = "unmounted"]
    /\ UNCHANGED <<generatedImages, isLoading, error>>

\* Call c stays suspended at Promise.all.
StillAwaiting(c) ==
    /\ pc' = [pc EXCEPT ![c] = "awaiting"]
    /\ UNCHANGED <<generatedImages, isLoading, error, outcome>>

\* What follows `await Promise.all(generationPromises)` in call c once its
\* promises are as in ts: nothing while one is pending; the outer catch as
\* soon as one is rejected; setGeneratedImages(results) and finally when all
\* are fulfilled.
AfterPromiseAll(c, ts) ==
    IF \E i \in 1..Len(ts) : ts[i].state = "rejected"
    THEN IF call[c].mounted
         THEN CatchSetup(c, (CHOOSE t \in {ts[i] : i \in 1..Len(ts)} :
                                t.state = "rejected").reason)
         ELSE EndUnmounted(c)
    ELSE IF AllFulfilled(ts)
    THEN IF call[c].mounted
         THEN /\ generatedImages' = Images(PromiseAll(ts))
              /\ isLoading' = FALSE
              /\ pc' = [pc EXCEPT ![c] = "idle"]
              /\ outcome' = [outcome EXCEPT ![c] = "stored"]
              /\ UNCHANGED error
         ELSE EndUnmounted(c)
    ELSE StillAwaiting(c)

\* fileToBase64 resolves in call c: the map over the sizes runs, sending one
\* request per valid spec, and the call suspends at Promise.all.
FileReadResolve(c) ==
    /\ pc[c] = "reading"
    /\ tasks' = [tasks EXCEPT ![c] = MapTasks(call[c].sizes)]
    /\ requests' = [requests EXCEPT
                      ![c] = MapRequests(call[c].sizes, call[c].purpose)]
    /\ AfterPromiseAll(c, tasks'[c])
    /\ UNCHANGED <<purpose, screenshotFile, selectedSizes, call,
                   videoVars, resizeVars, editVars, exportVars>>

\* What fileToBase64 rejects with: the event of reader.onerror, which is no
\* Error, or the Error raised for a data URL without a base64 part.
FileReadErrors ==
    {NonErrorValue, ErrorValue(Msg("Failed to extract base64 from file."))}

\* fileToBase64 rejects with err in call c.
FileReadReject(c, err) ==
    /\ pc[c] = "reading"
    /\ IF call[c].mounted THEN CatchSetup(c, err) ELSE EndUnmounted(c)
    /\ UNCHANGED <<purpose, screenshotFile, selectedSizes, call, tasks,
                   requests, videoVars, resizeVars, editVars, exportVars>>

\* Task i of call c, whose remote call has not returned yet.
AwaitingRemote(c, i) == pc[c] = "awaiting" /\ tasks[c][i].state = "pending"

\* Task i of call c, whose getImageDimensions call has not returned yet.
AwaitingDecode(c, i) == pc[c] = "awaiting" /\ tasks[c][i].state = "decoding"

\* generateContent returns an inlineData part: generateScreenshot returns its
\* data and the callback suspends at `await getImageDimensions(...)`.
RemoteImage(c, i, payload) ==
    /\ AwaitingRemote(c, i)
    /\ tasks' = [tasks EXCEPT ![c] = WriteSlot(@, i, Decoding(payload))]
    /\ UNCHANGED <<purpose, screenshotFile, selectedSizes, isLoading,
                   generatedImages, error, pc, call, requests, outcome,
                   videoVars, resizeVars, editVars, exportVars>>

\* The remote call fails with err: generateContent rejects, or
\* generateScreenshot throws for a response without an image part.
RemoteFails(c, i, err) ==
    /\ AwaitingRemote(c, i)
    /\ tasks' = [tasks EXCEPT
                   ![c] = WriteSlot(@, i, SettleError(call[c].sizes[i], err))]
    /\ requests' = [requests EXCEPT
                      ![c][i] = @ \o FailureRequests(call[c].sizes[i],
                                                     call[c].purpose)]
    /\ AfterPromiseAll(c, tasks'[c])
    /\ UNCHANGED <<purpose, screenshotFile, selectedSizes, call,
                   videoVars, resizeVars, editVars, exportVars>>

\* The response carries no inlineData part but a text part.
RemoteText(c, i, text) ==
    RemoteFails(c, i, ErrorValue(
        MsgWith("API returned text instead of an image: ${part.text}", text)))

\* The response carries neither an inlineData part nor a non-empty text
\* part.
RemoteNoImage(c, i) ==
    RemoteFails(c, i, ErrorValue(Msg("No image was generated by the API.")))

\* generateContent rejects with thrown.
RemoteReject(c, i, thrown) == RemoteFails(c, i, thrown)

\* img.onload of getImageDimensions.
DecodeLoad(c, i) ==
    /\ AwaitingDecode(c, i)
    /\ Decodable(tasks[c][i].payload)
    /\ tasks' = [tasks EXCEPT
                   ![c] = WriteSlot(@, i, SettleSuccess(call[c].sizes[i],
                                                        tasks[c][i].payload))]
    /\ AfterPromiseAll(c, tasks'[c])
    /\ UNCHANGED <<purpose, screenshotFile, selectedSizes, call, requests,
                   videoVars, resizeVars, editVars, exportVars>>

\* img.onerror of getImageDimensions.
DecodeError(c, i) ==
    /\ AwaitingDecode(c, i)
    /\ ~Decodable(tasks[c][i].payload)
    /\ tasks' = [tasks EXCEPT
                   ![c] = WriteSlot(@, i, SettleError(call[c].sizes[i],
            ErrorValue(Msg("Failed to load image to determine dimensions. The base64 data may be corrupt."))))]
    /\ AfterPromiseAll(c, tasks'[c])
    /\ UNCHANGED <<purpose, screenshotFile, selectedSizes, call, requests,
                   videoVars, resizeVars, editVars, exportVars>>

\* ImageInput's onFileChange={setScreenshotFile}.
SetScreenshotFile(f) ==
    /\ Mounted
    /\ f # screenshotFile
    /\ screenshotFile' = f
    /\ UNCHANGED <<purpose, selectedSizes, isLoading, generatedImages, error,
                   pc, call, tasks, requests, outcome,
                   videoVars, resizeVars, editVars, exportVars>>

-----------------------------------------------------------------------------
(* generatePromotionalVideo                                                *)

\* Largest number of not-done reports the video capability makes before its
\* last report.
MaxNotDone == 10

\* Largest number of generatePromotionalVideo calls followed, one after the
\* other.
MaxVideoCalls == 2

\* What is passed in the position of onProgress: a function, as the signature
\* declares, or the scene description, a string, which the handleSubmit of
\* VideoGenerator passes third (its callback comes fourth and is not read).
ProgressCallback == [typeof |-> "function"]
SceneDescription == [typeof |-> "string"]

\* The TypeError of `onProgress(...)` on a value that is no function.
NotAFunction == ErrorValue(Msg("onProgress is not a function"))

\* A falsy `operation.response?.generatedVideos?.[0]?.video?.uri`.
NoLocator == ""
Locators == {"https://video/1.mp4", "https://video/2.mp4"}

\* An operation handle: its done flag and the uri it carries.
Handle(done, uri) == [kind |-> "handle", done |-> done, uri |-> uri]
\* A capability call that rejects with err.
Throws(err) == [kind |-> "throw", err |-> err]

NotDone == Handle(FALSE, NoLocator)

\* The last report of a capability: done with a locator, done without one,
\* or a failed call.
VideoThrown == {ErrorValue(Msg("Network request failed")), NonErrorValue}

LastReports ==
    {Handle(TRUE, u) : u \in Locators \cup {NoLocator}}
    \cup {Throws(err) : err \in VideoThrown}

\* What the capability answers, call after call: the first answer is the one
\* of generateVideos, the next ones those of getVideosOperation.
Scripts ==
    {[i \in 1..(k + 1) |-> IF i <= k THEN NotDone ELSE last] :
        k \in 0..MaxNotDone, last \in LastReports}

\* The answer to the capability call made last.
Answer ==
    LET n == submits + queries
    IN IF n <= Len(script) THEN script[n] ELSE script[Len(script)]

\* No call made yet, and the call numbered n made with onProgress, begun
\* when the counters and the sequences stood where the state has them.
NoVideoCall ==
    [n |-> 0, onProgress |-> ProgressCallback,
     submits |-> 0, queries |-> 0, progress |-> 0, delays |-> 0]
VideoCallOf(n, onProgress) ==
    [n |-> n, onProgress |-> onProgress,
     submits |-> submits, queries |-> queries,
     progress |-> Len(progress), delays |-> Len(delays)]

\* What belongs to the call followed: the requests it sent, the messages it
\* passed to onProgress, its waits, and the answers left for it.
CallSubmits == submits - vcall.submits
CallQueries == queries - vcall.queries
CallProgress == SubSeq(progress, vcall.progress + 1, Len(progress))
CallDelays == SubSeq(delays, vcall.delays + 1, Len(delays))
CallScript ==
    LET n == vcall.submits + vcall.queries
    IN IF n < Len(script) THEN SubSeq(script, n + 1, Len(script))
       ELSE <<script[Len(script)]>>

SendingMsg == Msg("Sending request to the video model...")
ProcessingMsg ==
    Msg("Your video is being processed. This can take a few minutes...")
CheckingMsg(n) ==
    MsgWith("Checking generation status... (Attempt ${checks})", FormatNumber(n))
FinalizingMsg == Msg("Finalizing your video...")
NoLinkError ==
    ErrorValue(Msg("Video generation completed, but no download link was found."))

\* The promise generatePromotionalVideo returned.
VideoPending == [state |-> "pending"]
VideoFulfilled(uri) == [state |-> "fulfilled", value |-> uri]
VideoRejected(err) == [state |-> "rejected", reason |-> err]

\* const pollInterval = 10000; // 10 seconds
pollInterval == 10000

\* Faulty variant of TimerDelay: the wait grows with the number of checks.
TimerDelayBackoff(op, n) == pollInterval * (n + 1)

\* The delay of `setTimeout(resolve, pollInterval)` in the loop body, entered
\* with the handle op after n checks.
TimerDelay(op, n) == pollInterval

\* Faulty variant of LeaveLoop: no message is emitted after the loop.
LeaveLoopSilent(msgs) == msgs

\* The messages once the loop is left: onProgress("Finalizing your video...").
LeaveLoop(msgs) == Append(msgs, FinalizingMsg)

\* Faulty variant of Settle: the downloadLink test is left out.
SettleNoCheck(op) == VideoFulfilled(op.uri)

\* The downloadLink test and the return.
Settle(op) ==
    IF op.uri = NoLocator THEN VideoRejected(NoLinkError)
    ELSE VideoFulfilled(op.uri)

\* Faulty variant of LoopTest: the loop goes on whatever the handle reports.
LoopTestIgnoresDone(op, msgs) ==
    /\ vpc' = "sleeping"
    /\ progress' = msgs
    /\ delays' = Append(delays, TimerDelay(op, checks))
    /\ UNCHANGED vresult

\* The test of `while (!operation.done)` on the handle op, with msgs the
\* messages emitted so far: the body's setTimeout, or the code after the loop.
LoopTest(op, msgs) ==
    IF ~op.done
    THEN /\ vpc' = "sleeping"
         /\ progress' = msgs
         /\ delays' = Append(delays, TimerDelay(op, checks))
         /\ UNCHANGED vresult
    ELSE /\ vpc' = "done"
         /\ progress' = LeaveLoop(msgs)
         /\ vresult' = Settle(op)
         /\ UNCHANGED delays

\* generatePromotionalVideo is called with onProgress: the first onProgress
\* call, which throws on a value that is no function and so rejects the
\* returned promise, and the generateVideos request. The function does not
\* know the mode: the handleSubmit of VideoGenerator calls it after `await
\* fileToBase64`, also when the component was unmounted in between. A call
\* holds nothing but its parameters and locals; the calls are followed one
\* after the other.
VideoCall(onProgress) ==
    /\ vpc \in {"idle", "done"}
    /\ vcall.n < MaxVideoCalls
    /\ vcall' = VideoCallOf(vcall.n + 1, onProgress)
    /\ operation' = NotDone
    /\ checks' = 0
    /\ IF onProgress.typeof = "function"
       THEN /\ progress' = Append(progress, SendingMsg)
            /\ submits' = submits + 1
            /\ vpc' = "submitting"
            /\ vresult' = VideoPending
       ELSE /\ vresult' = VideoRejected(NotAFunction)
            /\ vpc' = "done"
            /\ UNCHANGED <<progress, submits>>
    /\ UNCHANGED <<queries, script, delays, mode,
                   batchVars, resizeVars, editVars, exportVars>>

\* generateVideos resolves with a handle.
SubmitReturns ==
    /\ vpc = "submitting"
    /\ Answer.kind = "handle"
    /\ operation' = Answer
    /\ LoopTest(operation', Append(progress, ProcessingMsg))
    /\ UNCHANGED <<checks, submits, queries, script, vcall, mode,
                   batchVars, resizeVars, editVars, exportVars>>

\* Faulty variant of SubmitThrows: the failure is swallowed and the polling
\* loop is entered with the handle held so far.
SubmitThrowsSwallowed ==
    /\ vpc = "submitting"
    /\ Answer.kind = "throw"
    /\ LoopTest(operation, Append(progress, ProcessingMsg))
    /\ UNCHANGED <<operation, checks, submits, queries, script, vcall, mode,
                   batchVars, resizeVars, editVars, exportVars>>

\* generateVideos rejects: the returned promise rejects with the same error.
SubmitThrows ==
    /\ vpc = "submitting"
    /\ Answer.kind = "throw"
    /\ vresult' = VideoRejected(Answer.err)
    /\ vpc' = "done"
    /\ UNCHANGED <<operation, checks, progress, submits, queries, script, vcall,
                   delays, mode, batchVars, resizeVars, editVars, exportVars>>

\* Faulty variant of PollTick: `checks++` is left out.
PollTickNoIncrement ==
    /\ vpc = "sleeping"
    /\ checks' = checks
    /\ progress' = Append(progress, CheckingMsg(checks'))
    /\ queries' = queries + 1
    /\ vpc' = "polling"
    /\ UNCHANGED <<operation, submits, script, vcall, vresult, delays, mode,
                   batchVars, resizeVars, editVars, exportVars>>

\* Faulty variant of PollTick: the loop gives up after two attempts.
PollTickCapped ==
    /\ vpc = "sleeping"
    /\ IF checks >= 2
       THEN /\ vresult' = VideoRejected(ErrorValue(Msg("Video generation timed out.")))
            /\ vpc' = "done"
            /\ UNCHANGED <<checks, progress, queries>>
       ELSE /\ checks' = checks + 1
            /\ progress' = Append(progress, CheckingMsg(checks'))
            /\ queries' = queries + 1
            /\ vpc' = "polling"
            /\ UNCHANGED vresult
    /\ UNCHANGED <<operation, submits, script, vcall, delays, mode,
                   batchVars, resizeVars, editVars, exportVars>>

\* The setTimeout of the loop body fires: checks++, the progress message and
\* the getVideosOperation request.
PollTick ==
    /\ vpc = "sleeping"
    /\ checks' = checks + 1
    /\ progress' = Append(progress, CheckingMsg(checks'))
    /\ queries' = queries + 1
    /\ vpc' = "polling"
    /\ UNCHANGED <<operation, submits, script, vcall, vresult, delays, mode,
                   batchVars, resizeVars, editVars, exportVars>>

\* getVideosOperation resolves with the refreshed handle.
PollReturns ==
    /\ vpc = "polling"
    /\ Answer.kind = "handle"
    /\ operation' = Answer
    /\ LoopTest(operation', progress)
    /\ UNCHANGED <<checks, submits, queries, script, vcall, mode,
                   batchVars, resizeVars, editVars, exportVars>>

\* Faulty variant of PollThrows: a failed status query is tried again after
\* another wait.
PollThrowsRetry ==
    /\ vpc = "polling"
    /\ Answer.kind = "throw"
    /\ vpc' = "sleeping"
    /\ delays' = Append(delays, TimerDelay(operation, checks))
    /\ UNCHANGED <<operation, checks, progress, submits, queries, script, vcall,
                   vresult, mode, batchVars, resizeVars, editVars, exportVars>>

\* getVideosOperation rejects: the returned promise rejects with the same
\* error.
PollThrows ==
    /\ vpc = "polling"
    /\ Answer.kind = "throw"
    /\ vresult' = VideoRejected(Answer.err)
    /\ vpc' = "done"
    /\ UNCHANGED <<operation, checks, progress, submits, queries, script, vcall,
                   delays, mode, batchVars, resizeVars, editVars, exportVars>>

-----------------------------------------------------------------------------
(* resizeImageBase64                                                       *)

\* Largest width or height, in pixels, of the sources and targets drawn
\* besides the named cases.
MaxDim == 3

\* What a base64 payload decodes to: a picture with its pixel size and the
\* RGB bytes of its top-left pixel, or nothing.
Picture(width, height, topLeft) ==
    [ok |-> TRUE, width |-> width, height |-> height, topLeft |-> topLeft]
Undecodable == [ok |-> FALSE]

TopLefts == {<<0, 0, 0>>, <<255, 128, 7>>}

\* The arguments of a call.
ResizeArgs(img, targetWidth, targetHeight) ==
    [img |-> img, targetWidth |-> targetWidth, targetHeight |-> targetHeight]

\* Source and target sizes beyond MaxDim: a 2:1 source into a square, and
\* sources of the target's size or aspect.
NamedSizes ==
    {<<800, 400, 300, 300>>, <<21, 19, 21, 19>>, <<15, 11, 15, 11>>,
     <<42, 38, 21, 19>>, <<1290, 2796, 1290, 2796>>}

ResizeSizes ==
    {<<sw, sh, tw, th>> : sw \in 1..MaxDim, sh \in 1..MaxDim,
                          tw \in 1..MaxDim, th \in 1..MaxDim}
    \cup NamedSizes

ResizeInputs ==
    {ResizeArgs(Picture(z[1], z[2], c), z[3], z[4]) :
        z \in ResizeSizes, c \in TopLefts}
    \cup {ResizeArgs(Undecodable, 4, 6)}

\* The calls whose target width or height is zero or negative.
InvalidSides == {0 - 2, 0}

InvalidTargets ==
    {z \in (InvalidSides \cup {3}) \X (InvalidSides \cup {3}) :
        z[1] <= 0 \/ z[2] <= 0}

ResizeAnyInputs ==
    ResizeInputs
    \cup {ResizeArgs(Picture(sw, sh, <<255, 128, 7>>), z[1], z[2]) :
            sw \in 1..2, sh \in 1..2, z \in InvalidTargets}
    \cup {ResizeArgs(Undecodable, 0, 6)}

\* Faulty variant of RgbString: the channels are written in reverse.
RgbStringReversed(pixelData) ==
    <<"r", "g", "b", "(">> \o FormatNumber(pixelData[3]) \o <<",", " ">>
        \o FormatNumber(pixelData[2]) \o <<",", " ">>
        \o FormatNumber(pixelData[1]) \o <<")">>

\* `rgb(${pixelData[0]}, ${pixelData[1]}, ${pixelData[2]})`
RgbString(pixelData) ==
    <<"r", "g", "b", "(">> \o FormatNumber(pixelData[1]) \o <<",", " ">>
        \o FormatNumber(pixelData[2]) \o <<",", " ">>
        \o FormatNumber(pixelData[3]) \o <<")">>

\* Faulty variant of NewCanvas: width and height are assigned crosswise.
NewCanvasSwapped(width, height) == [width |-> height, height |-> width]

\* document.createElement('canvas') with its width and height assigned. The
\* attributes are unsigned: a negative number assigned leaves the default,
\* 300 by 150.
NewCanvas(width, height) ==
    [width |-> IF width < 0 THEN 300 ELSE width,
     height |-> IF height < 0 THEN 150 ELSE height]

\* The source is wider than the target: fit to the width, centre vertically.
FitWidth(drawWidth, drawHeight, targetHeight) ==
    [drawWidth |-> drawWidth,
     drawHeight |-> drawHeight,
     x |-> FromInt(0),
     y |-> FDiv(FSub(targetHeight, drawHeight), FromInt(2))]

\* The source is taller than or same as the target: fit to the height,
\* centre horizontally.
FitHeight(drawWidth, drawHeight, targetWidth) ==
    [drawWidth |-> drawWidth,
     drawHeight |-> drawHeight,
     x |-> FDiv(FSub(targetWidth, drawWidth), FromInt(2)),
     y |-> FromInt(0)]

\* The branch on the aspect ratios.
ContainBy(sourceAspectRatio, targetAspectRatio, targetWidth, targetHeight) ==
    IF FGreater(sourceAspectRatio, targetAspectRatio)
    THEN FitWidth(targetWidth, FDiv(targetWidth, sourceAspectRatio),
                  targetHeight)
    ELSE FitHeight(FMul(targetHeight, sourceAspectRatio), targetHeight,
                   targetWidth)

\* The "contain" (letterbox) logic: where and how large the source is drawn.
Contain(img, targetWidth, targetHeight) ==
    ContainBy(FDiv(FromInt(img.width), FromInt(img.height)),
              FDiv(FromInt(targetWidth), FromInt(targetHeight)),
              FromInt(targetWidth), FromInt(targetHeight))

\* The output canvas after fillRect and drawImage: its size, the fill and
\* the rectangle the source was drawn into.
Painted(cv, img, targetWidth, targetHeight) ==
    [width |-> cv.width,
     height |-> cv.height,
     fillStyle |-> RgbString(img.topLeft),
     fillRect |-> <<0, 0, targetWidth, targetHeight>>,
     image |-> img,
     at |-> Contain(img, targetWidth, targetHeight)]

\* canvas.toDataURL(mimeType): the encoding of what the canvas holds.
ToDataURL(cv) == [dataURL |-> cv]

\* The promise resizeImageBase64 returned.
ResizePending == [state |-> "pending"]
ResizeFulfilled(url) == [state |-> "fulfilled", value |-> url]
ResizeRejected(err) == [state |-> "rejected", reason |-> err]

\* The call: the Image is created and its src set.
ResizeCall ==
    /\ rpc = "idle"
    /\ rpc' = "loading"
    /\ UNCHANGED <<rargs, canvas, rresult,
                   batchVars, videoVars, editVars, exportVars>>

\* img.onload, when both 2D contexts are there: fill, draw, encode, resolve.
OnloadDraws ==
    /\ rpc = "loading"
    /\ rargs.img.ok
    /\ canvas' = Painted(NewCanvas(rargs.targetWidth, rargs.targetHeight),
                         rargs.img, rargs.targetWidth, rargs.targetHeight)
    /\ rresult' = ResizeFulfilled(ToDataURL(canvas'))
    /\ rpc' = "settled"
    /\ UNCHANGED <<rargs, batchVars, videoVars, editVars, exportVars>>

\* img.onload, when the output canvas gives no 2D context.
OnloadNoContext ==
    /\ rpc = "loading"
    /\ rargs.img.ok
    /\ canvas' = NewCanvas(rargs.targetWidth, rargs.targetHeight)
    /\ rresult' =
          ResizeRejected(ErrorValue(Msg("Could not get canvas 2D context.")))
    /\ rpc' = "settled"
    /\ UNCHANGED <<rargs, batchVars, videoVars, editVars, exportVars>>

\* img.onload, when the sampling canvas gives no 2D context.
OnloadNoTempContext ==
    /\ rpc = "loading"
    /\ rargs.img.ok
    /\ canvas' = NewCanvas(rargs.targetWidth, rargs.targetHeight)
    /\ rresult' =
          ResizeRejected(ErrorValue(Msg("Could not get temporary canvas context for color sampling.")))
    /\ rpc' = "settled"
    /\ UNCHANGED <<rargs, batchVars, videoVars, editVars, exportVars>>

\* img.onerror: the payload is no image.
ResizeOnerror ==
    /\ rpc = "loading"
    /\ ~rargs.img.ok
    /\ rresult' =
          ResizeRejected(ErrorValue(Msg("Failed to load image for resizing.")))
    /\ rpc' = "settled"
    /\ UNCHANGED <<rargs, canvas, batchVars, videoVars, editVars, exportVars>>

-----------------------------------------------------------------------------
(* ScreenshotGenerator: the purpose and the list of output sizes           *)

\* Largest number of sizes the size list is grown to.
MaxSizes == 3

\* The literal 'WxH' of a size in the option tables.
Literal(w, h) == FormatNumber(w) \o <<"x">> \o FormatNumber(h)

purposeOptions == <<"app-store", "social-media", "og-image", "custom">>

socialPlatformOptions ==
    <<[id |-> "instagram-post",
       sizes |-> <<Literal(2880, 2880), Literal(2160, 2700)>>],
      [id |-> "instagram-story", sizes |-> <<Literal(1620, 2880)>>],
      [id |-> "x-threads",
       sizes |-> <<Literal(2880, 2880), Literal(2880, 1620)>>]>>

presetOptions ==
    <<Literal(1290, 2796), Literal(2796, 1290), Literal(2048, 2732),
      Literal(2732, 2048), Literal(1620, 2880), Literal(2880, 1620),
      Literal(2160, 2700), Literal(2880, 2160), Literal(2880, 2880)>>

\* The presets toggled and the strings typed into the custom-size fields.
PresetPool ==
    {presetOptions[1], presetOptions[3], presetOptions[7], presetOptions[9]}
WidthPool == {<<>>, <<"1", "2">>, <<"0", "1", "2">>, <<"1", "2", "9", "0">>,
              <<"0">>}
HeightPool == {<<>>, <<"5">>, <<"2", "7", "9", "6">>, <<"a">>}

\* The leading run of decimal digits of s.
RECURSIVE DigitPrefix(_)
DigitPrefix(s) ==
    IF Len(s) = 0 \/ ~IsDigit(s[1]) THEN <<>>
    ELSE <<s[1]>> \o DigitPrefix(Tail(s))

\* parseInt(s, 10): an optional sign and the digits that follow it, NaN when
\* there are none.
ParseInt(s) ==
    LET neg == Len(s) > 0 /\ s[1] = "-"
        ds == DigitPrefix(IF neg THEN Tail(s) ELSE s)
    IN IF Len(ds) = 0 THEN NaN
       ELSE Num(IF neg THEN 0 - DecimalValue(ds) ELSE DecimalValue(ds))

\* Array.prototype.includes and filter(size => size !== value).
Includes(list, value) == \E i \in 1..Len(list) : list[i] = value
Without(list, value) == SelectSeq(list, LAMBDA size : size # value)

\* The list the switch of useEffect([purpose]) selects.
PurposeSizes(p) ==
    CASE p = "app-store" -> <<Literal(1290, 2796), Literal(2048, 2732)>>
      [] p = "social-media" -> socialPlatformOptions[1].sizes
      [] p = "og-image" -> <<Literal(1200, 630)>>
      [] p = "custom" -> <<Literal(1290, 2796)>>
      [] OTHER -> <<>>

\* A purpose button: setPurpose(p), and the effect that runs with the render
\* of the new purpose.
SetPurpose(p) ==
    /\ Mounted
    /\ p # purpose
    /\ purpose' = p
    /\ error' = Null
    /\ generatedImages' = Null
    /\ selectedSizes' = PurposeSizes(p)
    /\ socialPlatform' = IF p = "social-media"
                         THEN socialPlatformOptions[1].id ELSE socialPlatform
    /\ UNCHANGED <<screenshotFile, isLoading, pc, call, tasks, requests,
                   outcome, customWidth, customHeight, videoVars, resizeVars,
                   exportVars>>

\* The size controls are rendered for every purpose but 'og-image'.
SizeControlsShown == purpose # "og-image"

\* Faulty variant of Toggled: a selected preset is appended once more.
ToggledAppendOnly(prev, value) == Append(prev, value)

\* The updater of handlePresetToggle.
Toggled(prev, value) ==
    IF Includes(prev, value) THEN Without(prev, value) ELSE Append(prev, value)

\* A preset button.
HandlePresetToggle(value) ==
    /\ Mounted
    /\ SizeControlsShown
    /\ Includes(selectedSizes, value) \/ Len(selectedSizes) < MaxSizes
    /\ selectedSizes' = Toggled(selectedSizes, value)
    /\ UNCHANGED <<purpose, screenshotFile, isLoading, generatedImages, error,
                   pc, call, tasks, requests, outcome, videoVars, resizeVars,
                   editVars, exportVars>>

\* A platform button, rendered for the purpose 'social-media'.
HandleSocialPlatformSelect(k) ==
    /\ Mounted
    /\ purpose = "social-media"
    /\ socialPlatform' = socialPlatformOptions[k].id
    /\ selectedSizes' = socialPlatformOptions[k].sizes
    /\ UNCHANGED <<purpose, screenshotFile, isLoading, generatedImages, error,
                   pc, call, tasks, requests, outcome, customWidth,
                   customHeight, videoVars, resizeVars, exportVars>>

\* Typing into the custom-size fields.
SetCustomWidth(text) ==
    /\ Mounted
    /\ SizeControlsShown
    /\ text # customWidth
    /\ customWidth' = text
    /\ UNCHANGED <<batchVars, socialPlatform, customHeight, videoVars,
                   resizeVars, exportVars>>

SetCustomHeight(text) ==
    /\ Mounted
    /\ SizeControlsShown
    /\ text # customHeight
    /\ customHeight' = text
    /\ UNCHANGED <<batchVars, socialPlatform, customWidth, videoVars,
                   resizeVars, exportVars>>

\* Faulty variant of WithCustomSize: the includes test is left out.
WithCustomSizeUnchecked(sizes, newSize) == Append(sizes, newSize)

\* The list after handleAddCustomSize built newSize.
WithCustomSize(sizes, newSize) ==
    IF Includes(sizes, newSize) THEN sizes ELSE Append(sizes, newSize)

\* The "Add Custom Size" button, disabled while a field is empty.
HandleAddCustomSize ==
    /\ Mounted
    /\ SizeControlsShown
    /\ Len(customWidth) > 0 /\ Len(customHeight) > 0
    /\ LET w == ParseInt(customWidth)
           h == ParseInt(customHeight)
       IN IF ~IsNaN(w) /\ ~IsNaN(h) /\ w.val > 0 /\ h.val > 0
          THEN /\ Len(WithCustomSize(selectedSizes, Literal(w.val, h.val)))
                     <= MaxSizes
               /\ selectedSizes' =
                     WithCustomSize(selectedSizes, Literal(w.val, h.val))
               /\ customWidth' = <<>>
               /\ customHeight' = <<>>
          ELSE UNCHANGED <<selectedSizes, customWidth, customHeight>>
    /\ UNCHANGED <<purpose, screenshotFile, isLoading, generatedImages, error,
                   pc, call, tasks, requests, outcome, socialPlatform,
                   videoVars, resizeVars, exportVars>>

\* The remove button of a size of the list.
HandleRemoveSize(sizeToRemove) ==
    /\ Mounted
    /\ SizeControlsShown
    /\ Includes(selectedSizes, sizeToRemove)
    /\ selectedSizes' = Without(selectedSizes, sizeToRemove)
    /\ UNCHANGED <<purpose, screenshotFile, isLoading, generatedImages, error,
                   pc, call, tasks, requests, outcome, videoVars, resizeVars,
                   editVars, exportVars>>

-----------------------------------------------------------------------------
(* ScreenshotGenerator: handleDownload and handleDownloadAll               *)

\* Largest number of handleDownload calls made.
MaxExports == 3

\* upscalingState[r] || false, the isUpscaling prop of the item of r.
IsUpscaling(r) == r \in DOMAIN upscalingState /\ upscalingState[r]

\* prev => ({ ...prev, [r]: flag })
WithUpscaling(prev, r, flag) ==
    [k \in DOMAIN prev \cup {r} |-> IF k = r THEN flag ELSE prev[k]]

\* What the Image of resizeImageBase64 loads from the base64 data of an item.
DecodedPicture(base64) ==
    IF Decodable(base64)
    THEN Picture(DecodedWidth(base64), DecodedHeight(base64), <<255, 128, 7>>)
    ELSE Undecodable

\* The arguments handleDownload passes to resizeImageBase64.
ExportArgs(imageData) ==
    ResizeArgs(DecodedPicture(imageData.base64),
               TargetWidth(imageData.requestedResolution).val,
               TargetHeight(imageData.requestedResolution).val)

\* What resizeImageBase64 resolves with for the arguments args.
Upscaled(args) ==
    ToDataURL(Painted(NewCanvas(args.targetWidth, args.targetHeight),
                      args.img, args.targetWidth, args.targetHeight))

\* What resizeImageBase64 rejects with for the arguments args.
UpscaleErrors(args) ==
    IF args.img.ok
    THEN {ErrorValue(Msg("Could not get canvas 2D context.")),
          ErrorValue(Msg("Could not get temporary canvas context for color sampling."))}
    ELSE {ErrorValue(Msg("Failed to load image for resizing."))}

\* The <a> element handleDownload creates and clicks.
Link(upscaledDataUrl, targetWidth, targetHeight) ==
    [href |-> upscaledDataUrl,
     download |-> <<"app-store-screenshot-",
                    FormatNumber(targetWidth) \o <<"x">>
                        \o FormatNumber(targetHeight),
                    ".png">>]

\* Who called handleDownload: the download button of an item, or the
\* handleDownloadAll call n.
ButtonCaller == [kind |-> "button", loop |-> 0]
LoopCaller(n) == [kind |-> "all", loop |-> n]

\* A handleDownload call: the item it was given, who called it, whether it
\* is suspended at `await resizeImageBase64(...)` or has returned, and
\* whether the component that runs it is still mounted.
ExportCall(imageData, caller, mounted) ==
    [imageData |-> imageData, caller |-> caller, state |-> "awaiting",
     mounted |-> mounted]

\* The link of the handleDownload call of imageData whose resize resolved.
ExportLink(imageData) ==
    Link(Upscaled(ExportArgs(imageData)),
         ExportArgs(imageData).targetWidth,
         ExportArgs(imageData).targetHeight)

\* The items a download button is rendered for after a batch on the sizes
\* of the 'app-store' purpose.
ExportableItems ==
    {SuccessItem(PurposeSizes("app-store")[n], GoodPayload) :
        n \in 1..Len(PurposeSizes("app-store"))}

\* The link handleDownload clicks for each of these items.
ExportLinks == [imageData \in ExportableItems |-> ExportLink(imageData)]

\* The link handleDownload clicks for imageData, read from the table when
\* it is there.
ClickedLink(imageData) ==
    IF imageData \in ExportableItems
    THEN ExportLinks[imageData] ELSE ExportLink(imageData)

\* The call c after it clicked link and returned.
ExportDone(c, link) ==
    [imageData |-> c.imageData, caller |-> c.caller, state |-> "done",
     mounted |-> c.mounted, link |-> link]

\* No handleDownloadAll call was made.
DownloadAllIdle == <<>>

\* A handleDownloadAll call inside handleDownload of an item, with the
\* successful items still to come.
DownloadAllCall(queue, mounted) ==
    [at |-> "exporting", queue |-> queue, mounted |-> mounted]

\* The number of items the handleDownloadAll calls up to n have still to
\* export.
RECURSIVE QueuedUpTo(_)
QueuedUpTo(n) ==
    IF n = 0 THEN 0 ELSE QueuedUpTo(n - 1) + Len(dall[n].queue)

Queued == QueuedUpTo(Len(dall))

\* A handleDownload call for the resolution r is in flight.
InFlight(r) ==
    \E k \in 1..Len(exports) :
        /\ exports[k].state = "awaiting"
        /\ exports[k].imageData.requestedResolution = r

\* The items of generatedImages, none when it is null.
ShownItems == IF generatedImages = Null THEN <<>> ELSE generatedImages.items

\* generatedImages?.filter(img => img.status === 'success') || []
SuccessfulImages == SelectSeq(ShownItems, LAMBDA img : img.status = "success")

\* The results panel is rendered: not loading, and a non-empty list.
ResultsShown ==
    /\ isLoading = FALSE
    /\ Len(ShownItems) > 0

\* handleDownload up to its await: the item has base64 data, the flag of
\* its resolution is set and resizeImageBase64 is called. The state update
\* of a component that was unmounted is dropped.
HandleDownloadStart(imageData, caller, mounted) ==
    /\ "base64" \in DOMAIN imageData
    /\ upscalingState' =
          IF mounted
          THEN WithUpscaling(upscalingState, imageData.requestedResolution,
                             TRUE)
          ELSE upscalingState
    /\ exports' = Append(exports, ExportCall(imageData, caller, mounted))

\* The download button of item i, rendered for a successful item and
\* disabled while isUpscaling.
DownloadClick(i) ==
    /\ Mounted
    /\ ResultsShown
    /\ ShownItems[i].status = "success"
    /\ ~IsUpscaling(ShownItems[i].requestedResolution)
    /\ Len(exports) + Queued < MaxExports
    /\ HandleDownloadStart(ShownItems[i], ButtonCaller, TRUE)
    /\ UNCHANGED <<isDownloadingAll, downloads, dall,
                   batchVars, videoVars, resizeVars, editVars>>

\* The Download All button, rendered for more than one successful item and
\* disabled while isDownloadingAll: handleDownloadAll up to its first await,
\* inside handleDownload of the first successful item. The variable dall
\* holds the handleDownloadAll calls made, those of an unmounted component
\* included, which run on beside the calls of the component mounted since.
DownloadAllClick ==
    /\ Mounted
    /\ ResultsShown
    /\ Len(SuccessfulImages) > 1
    /\ isDownloadingAll = FALSE
    /\ Len(exports) + Queued + Len(SuccessfulImages) <= MaxExports
    /\ isDownloadingAll' = TRUE
    /\ HandleDownloadStart(Head(SuccessfulImages), LoopCaller(Len(dall) + 1),
                           TRUE)
    /\ dall' = Append(dall, DownloadAllCall(Tail(SuccessfulImages), TRUE))
    /\ UNCHANGED <<downloads, batchVars, videoVars, resizeVars, editVars>>

\* The finally block of call k, and the return to handleDownloadAll if it
\* is the caller, which then waits 500 ms.
ExportReturns(k) ==
    /\ exports[k].state = "awaiting"
    /\ upscalingState' =
          IF exports[k].mounted
          THEN WithUpscaling(upscalingState,
                             exports[k].imageData.requestedResolution, FALSE)
          ELSE upscalingState
    /\ dall' = IF exports[k].caller.kind = "all"
               THEN [dall EXCEPT ![exports[k].caller.loop].at = "pausing"]
               ELSE dall
    /\ UNCHANGED <<isDownloadingAll,
                   batchVars, videoVars, resizeVars, editVars>>

\* Faulty variant of ExportResolve: the exported size is written back into
\* the item of generatedImages.
ExportResolveWritesBack(k) ==
    /\ exports[k].state = "awaiting"
    /\ ExportArgs(exports[k].imageData).img.ok
    /\ upscalingState' =
          WithUpscaling(upscalingState,
                        exports[k].imageData.requestedResolution, FALSE)
    /\ dall' = IF exports[k].caller.kind = "all"
               THEN [dall EXCEPT ![exports[k].caller.loop].at = "pausing"]
               ELSE dall
    /\ exports' = [exports EXCEPT ![k] = ExportDone(@, ClickedLink(@.imageData))]
    /\ downloads' = Append(downloads, exports'[k].link)
    /\ generatedImages' =
          IF generatedImages = Null THEN Null
          ELSE Images([i \in 1..Len(ShownItems) |->
                  IF ShownItems[i] = exports[k].imageData
                  THEN [ShownItems[i] EXCEPT
                          !.actualWidth =
                              ExportArgs(exports[k].imageData).targetWidth,
                          !.actualHeight =
                              ExportArgs(exports[k].imageData).targetHeight]
                  ELSE ShownItems[i]])
    /\ UNCHANGED <<purpose, screenshotFile, selectedSizes, isLoading, error,
                   pc, call, tasks, requests, outcome, isDownloadingAll,
                   videoVars, resizeVars, editVars>>

\* resizeImageBase64 resolves for call k: the link is created and clicked.
ExportResolve(k) ==
    /\ ExportReturns(k)
    /\ ExportArgs(exports[k].imageData).img.ok
    /\ exports' = [exports EXCEPT ![k] = ExportDone(@, ClickedLink(@.imageData))]
    /\ downloads' = Append(downloads, exports'[k].link)

\* resizeImageBase64 rejects for call k: the catch block logs the error.
ExportReject(k, err) ==
    /\ ExportReturns(k)
    /\ err \in UpscaleErrors(ExportArgs(exports[k].imageData))
    /\ exports' = [exports EXCEPT ![k].state = "failed"]
    /\ UNCHANGED downloads

\* The 500 ms timer of the handleDownloadAll call n fires: the loop goes on
\* to the next successful item, or ends with setIsDownloadingAll(false).
PauseEnd(n) ==
    /\ dall[n].at = "pausing"
    /\ IF dall[n].queue = <<>>
       THEN /\ isDownloadingAll' =
                  IF dall[n].mounted THEN FALSE ELSE isDownloadingAll
            /\ dall' = [dall EXCEPT ![n].at = "done"]
            /\ UNCHANGED <<upscalingState, exports>>
       ELSE /\ HandleDownloadStart(Head(dall[n].queue), LoopCaller(n),
                                   dall[n].mounted)
            /\ dall' = [dall EXCEPT ![n].at = "exporting",
                                    ![n].queue = Tail(dall[n].queue)]
            /\ UNCHANGED isDownloadingAll
    /\ UNCHANGED <<downloads, batchVars, videoVars, resizeVars, editVars>>

-----------------------------------------------------------------------------
(* Specifications                                                          *)

\* The component as constructed, before any submit.
BatchIdle ==
    /\ isLoading = FALSE
    /\ generatedImages = Null
    /\ error = Null
    /\ pc = [c \in Slots |-> "idle"]
    /\ call = [c \in Slots |-> CallOf(Null, <<>>, "app-store")]
    /\ tasks = [c \in Slots |-> <<>>]
    /\ requests = [c \in Slots |-> <<>>]
    /\ outcome = [c \in Slots |-> "none"]

\* No generatePromotionalVideo call made yet, against the capability sc.
VideoIdle(sc) ==
    /\ vpc = "idle"
    /\ operation = NotDone
    /\ checks = 0
    /\ progress = <<>>
    /\ submits = 0
    /\ queries = 0
    /\ script = sc
    /\ vresult = VideoPending
    /\ delays = <<>>
    /\ vcall = NoVideoCall

\* No resizeImageBase64 call made yet, to be made with the arguments args.
ResizeIdle(args) ==
    /\ rpc = "idle"
    /\ rargs = args
    /\ canvas = Null
    /\ rresult = ResizePending

\* The size controls and the export state of the component as constructed.
EditIdle ==
    /\ socialPlatform = "instagram-post"
    /\ customWidth = <<>>
    /\ customHeight = <<>>

ExportIdle ==
    /\ upscalingState = <<>>
    /\ isDownloadingAll = FALSE
    /\ exports = <<>>
    /\ downloads = <<>>
    /\ dall = DownloadAllIdle

\* ScreenshotGenerator as mounted: the state of the useState initialisers,
\* which the first run of useEffect([purpose]) leaves as it is.
ComponentMounted ==
    /\ purpose = "app-store"
    /\ screenshotFile = Null
    /\ selectedSizes = PurposeSizes("app-store")
    /\ BatchIdle
    /\ EditIdle
    /\ ExportIdle

\* App's mode toggle: setMode(m) unmounts the generator of the other mode and
\* mounts the one of mode m. The state of the ScreenshotGenerator unmounted
\* is discarded and the one mounted starts from its initialisers. Unmounting
\* ends no call: a handleSubmit, handleDownload or handleDownloadAll call in
\* flight runs on, its requests are sent and its links clicked, and only
\* its state updates are dropped. A generatePromotionalVideo call in flight
\* is not told either.
SetMode(m) ==
    /\ m # mode
    /\ mode' = m
    /\ purpose' = "app-store"
    /\ screenshotFile' = Null
    /\ selectedSizes' = PurposeSizes("app-store")
    /\ isLoading' = FALSE
    /\ generatedImages' = Null
    /\ error' = Null
    /\ socialPlatform' = "instagram-post"
    /\ customWidth' = <<>>
    /\ customHeight' = <<>>
    /\ upscalingState' = <<>>
    /\ isDownloadingAll' = FALSE
    /\ call' = [c \in Slots |->
                  IF Running(c) THEN [call[c] EXCEPT !.mounted = FALSE]
                  ELSE call[c]]
    /\ exports' = [k \in 1..Len(exports) |->
                      IF exports[k].state = "awaiting"
                      THEN [exports[k] EXCEPT !.mounted = FALSE]
                      ELSE exports[k]]
    /\ dall' = [n \in 1..Len(dall) |->
                   IF dall[n].at = "done" THEN dall[n]
                   ELSE [dall[n] EXCEPT !.mounted = FALSE]]
    /\ UNCHANGED <<pc, tasks, requests, outcome, downloads,
                   vpc, operation, checks, progress, submits, queries, script,
                   vresult, delays, vcall, resizeVars>>

\* The batch orchestrator, driven with every source file, spec list and
\* purpose within the bounds.
Init ==
    /\ purpose = "app-store"
    /\ screenshotFile \in Files \cup {Null}
    /\ selectedSizes \in SpecLists
    /\ BatchIdle
    /\ VideoIdle(<<NotDone>>)
    /\ mode = "image"
    /\ ResizeIdle(ResizeArgs(Undecodable, 4, 6))
    /\ EditIdle
    /\ ExportIdle

\* The environment's steps, for any task, payload, error or file.
FileReadResolves == \E c \in Slots : FileReadResolve(c)
FileReadRejects ==
    \E c \in Slots, err \in FileReadErrors : FileReadReject(c, err)
RemoteImages ==
    \E c \in Slots : \E i \in 1..Len(tasks[c]), payload \in Payloads :
        RemoteImage(c, i, payload)
RemoteTexts ==
    \E c \in Slots : \E i \in 1..Len(tasks[c]), text \in TextParts :
        RemoteText(c, i, text)
RemoteNoImages ==
    \E c \in Slots : \E i \in 1..Len(tasks[c]) : RemoteNoImage(c, i)
RemoteRejects ==
    \E c \in Slots : \E i \in 1..Len(tasks[c]), thrown \in RemoteThrown :
        RemoteReject(c, i, thrown)
DecodeLoads == \E c \in Slots : \E i \in 1..Len(tasks[c]) : DecodeLoad(c, i)
DecodeErrors ==
    \E c \in Slots : \E i \in 1..Len(tasks[c]) : DecodeError(c, i)
FileChanges == \E f \in Files \cup {Null} : SetScreenshotFile(f)

\* The batch orchestrator: a submit event may arrive in any state, also
\* while calls are in flight.
Next ==
    \/ SubmitNoFile
    \/ SubmitNoSizes
    \/ SubmitStart
    \/ FileReadResolves
    \/ FileReadRejects
    \/ RemoteImages
    \/ RemoteTexts
    \/ RemoteNoImages
    \/ RemoteRejects
    \/ DecodeLoads
    \/ DecodeErrors
    \/ FileChanges

Spec == Init /\ [][Next]_vars

\* The batch orchestrator as the page drives it: the only submit control of
\* the form is disabled while isLoading, so that a submit event is sent to
\* the form only while isLoading is false. The event may be dispatched
\* without a file or with an empty list, which handleSubmit tests itself.
IdleNext ==
    \/ isLoading = FALSE /\ SubmitNoFile
    \/ isLoading = FALSE /\ SubmitNoSizes
    \/ isLoading = FALSE /\ SubmitStart
    \/ FileReadResolves
    \/ FileReadRejects
    \/ RemoteImages
    \/ RemoteTexts
    \/ RemoteNoImages
    \/ RemoteRejects
    \/ DecodeLoads
    \/ DecodeErrors
    \/ FileChanges

IdleSpec == Init /\ [][IdleNext]_vars

\* The long-operation poller, called with a function as onProgress against
\* every scripted capability.
VideoInit ==
    /\ ComponentMounted
    /\ \E sc \in Scripts : VideoIdle(sc)
    /\ mode = "video"
    /\ ResizeIdle(ResizeArgs(Undecodable, 4, 6))

Modes == {"image", "video"}

SetModes == \E m \in Modes : SetMode(m)

VideoNext ==
    \/ VideoCall(ProgressCallback)
    \/ SubmitReturns
    \/ SubmitThrows
    \/ PollTick
    \/ PollReturns
    \/ PollThrows
    \/ SetModes

VideoSpec == VideoInit /\ [][VideoNext]_vars

\* The poller as the handleSubmit of VideoGenerator calls it: with four
\* arguments, the scene description in the position of onProgress.
VideoGeneratorNext ==
    \/ VideoCall(SceneDescription)
    \/ SetModes

VideoGeneratorSpec == VideoInit /\ [][VideoGeneratorNext]_vars

\* resizeImageBase64, called once with every input within the bounds.
ResizeInit ==
    /\ purpose = "app-store"
    /\ screenshotFile = Null
    /\ selectedSizes = <<Str4x6>>
    /\ BatchIdle
    /\ VideoIdle(<<NotDone>>)
    /\ mode = "image"
    /\ \E args \in ResizeInputs : ResizeIdle(args)
    /\ EditIdle
    /\ ExportIdle

ResizeNext ==
    \/ ResizeCall
    \/ OnloadDraws
    \/ OnloadNoContext
    \/ OnloadNoTempContext
    \/ ResizeOnerror

ResizeSpec == ResizeInit /\ [][ResizeNext]_vars

\* resizeImageBase64, called once with any target size, valid or not.
ResizeAnyInit ==
    /\ purpose = "app-store"
    /\ screenshotFile = Null
    /\ selectedSizes = <<Str4x6>>
    /\ BatchIdle
    /\ VideoIdle(<<NotDone>>)
    /\ mode = "image"
    /\ \E args \in ResizeAnyInputs : ResizeIdle(args)
    /\ EditIdle
    /\ ExportIdle

ResizeAnySpec == ResizeAnyInit /\ [][ResizeNext]_vars

\* App as mounted, in mode 'image'.
MountedInit ==
    /\ ComponentMounted
    /\ VideoIdle(<<NotDone>>)
    /\ mode = "image"
    /\ ResizeIdle(ResizeArgs(Undecodable, 4, 6))

\* The user's steps on the purpose and the size list.
SetPurposes == \E k \in 1..Len(purposeOptions) : SetPurpose(purposeOptions[k])
PresetToggles == \E value \in PresetPool : HandlePresetToggle(value)
SocialPlatformSelects ==
    \E k \in 1..Len(socialPlatformOptions) : HandleSocialPlatformSelect(k)
CustomWidthEdits == \E text \in WidthPool : SetCustomWidth(text)
CustomHeightEdits == \E text \in HeightPool : SetCustomHeight(text)
SizeRemovals ==
    \E i \in 1..Len(selectedSizes) : HandleRemoveSize(selectedSizes[i])

EditNext ==
    \/ SetPurposes
    \/ PresetToggles
    \/ SocialPlatformSelects
    \/ CustomWidthEdits
    \/ CustomHeightEdits
    \/ HandleAddCustomSize
    \/ SizeRemovals

\* The size list under every sequence of edits.
EditSpec == MountedInit /\ [][EditNext]_vars

\* The batch orchestrator, run on one spec: every 'WxH' of positive integers
\* up to MaxSide, or none.
GenInit ==
    /\ purpose \in Purposes
    /\ screenshotFile \in Files
    /\ selectedSizes \in {<<>>} \cup {<<r>> : r \in PositiveSpecs}
    /\ BatchIdle
    /\ VideoIdle(<<NotDone>>)
    /\ mode = "image"
    /\ ResizeIdle(ResizeArgs(Undecodable, 4, 6))
    /\ EditIdle
    /\ ExportIdle

\* The calls up to the dispatch of their requests: submit events and the
\* FileReader. The responses are left pending; they send no request.
GenNext ==
    \/ SubmitNoSizes
    \/ SubmitStart
    \/ FileReadResolves
    \/ FileReadRejects

GenSpec == GenInit /\ [][GenNext]_vars

\* The batch orchestrator of the mounted component, while the user changes
\* the purpose and the file.
PurposeNext ==
    \/ SubmitStart
    \/ FileReadResolves
    \/ FileReadRejects
    \/ RemoteImages
    \/ RemoteTexts
    \/ RemoteNoImages
    \/ RemoteRejects
    \/ DecodeLoads
    \/ DecodeErrors
    \/ FileChanges
    \/ SetPurposes

PurposeSpec == MountedInit /\ [][PurposeNext]_vars

\* The steps of the environment on call c.
FileReadReturns(c) ==
    (\E err \in FileReadErrors : FileReadReject(c, err)) \/ FileReadResolve(c)
RemoteReturns(c) ==
    \E i \in 1..Len(tasks[c]) :
        \/ \E payload \in Payloads : RemoteImage(c, i, payload)
        \/ \E text \in TextParts : RemoteText(c, i, text)
        \/ RemoteNoImage(c, i)
        \/ \E thrown \in RemoteThrown : RemoteReject(c, i, thrown)
DecodeReturns(c) ==
    \E i \in 1..Len(tasks[c]) : DecodeLoad(c, i) \/ DecodeError(c, i)

\* In every call the FileReader fires onload or onerror, a generateContent
\* call returns or fails, and an Image fires onload or onerror.
BatchFairness ==
    \A c \in Slots :
        /\ WF_vars(FileReadReturns(c))
        /\ WF_vars(RemoteReturns(c))
        /\ WF_vars(DecodeReturns(c))

\* The mounted component once the user has picked a file.
FilePickedInit ==
    /\ purpose = "app-store"
    /\ screenshotFile \in Files
    /\ selectedSizes = PurposeSizes("app-store")
    /\ BatchIdle
    /\ EditIdle
    /\ ExportIdle
    /\ VideoIdle(<<NotDone>>)
    /\ mode = "image"
    /\ ResizeIdle(ResizeArgs(Undecodable, 4, 6))

\* The batch orchestrator on the picked file, while the user removes sizes
\* from the list.
LoadingNext ==
    \/ SubmitNoSizes
    \/ SubmitStart
    \/ FileReadResolves
    \/ FileReadRejects
    \/ RemoteImages
    \/ RemoteTexts
    \/ RemoteNoImages
    \/ RemoteRejects
    \/ DecodeLoads
    \/ DecodeErrors
    \/ SizeRemovals

LoadingFairSpec == FilePickedInit /\ [][LoadingNext]_vars /\ BatchFairness

\* The user's and the environment's steps on the exports.
DownloadClicks == \E i \in 1..Len(ShownItems) : DownloadClick(i)
ExportResolves == \E k \in 1..Len(exports) : ExportResolve(k)
PauseEnds == \E n \in 1..Len(dall) : PauseEnd(n)
ExportRejects ==
    \E k \in 1..Len(exports),
       err \in {ErrorValue(Msg("Could not get canvas 2D context.")),
                ErrorValue(Msg("Could not get temporary canvas context for color sampling.")),
                ErrorValue(Msg("Failed to load image for resizing."))} :
        ExportReject(k, err)

\* How the promise of one spec may have settled: with a success item, or
\* with the error item of a failed generateContent call.
SettledTasks(resolution) ==
    {SettleSuccess(resolution, GoodPayload),
     SettleError(resolution, ErrorValue(Msg("Network request failed")))}

\* The settled generationPromises of a call on sizes.
SettledBatches(sizes) ==
    {ts \in [1..Len(sizes) ->
                UNION {SettledTasks(sizes[i]) : i \in 1..Len(sizes)}] :
        \A i \in 1..Len(sizes) : ts[i] \in SettledTasks(sizes[i])}

\* The mounted component after a handleSubmit call on the sizes of the
\* 'app-store' purpose has stored its results.
DownloadInit ==
    /\ purpose = "app-store"
    /\ screenshotFile \in Files
    /\ selectedSizes = PurposeSizes("app-store")
    /\ isLoading = FALSE
    /\ error = Null
    /\ pc = [c \in Slots |-> "idle"]
    /\ call = [c \in Slots |->
                 IF c = 1 THEN CallOf(screenshotFile, selectedSizes, purpose)
                 ELSE CallOf(Null, <<>>, "app-store")]
    /\ \E ts \in SettledBatches(selectedSizes) :
          /\ tasks = [c \in Slots |-> IF c = 1 THEN ts ELSE <<>>]
          /\ generatedImages = Images(PromiseAll(ts))
    /\ requests = [c \in Slots |->
                     IF c = 1 THEN MapRequests(selectedSizes, purpose)
                     ELSE <<>>]
    /\ outcome = [c \in Slots |-> IF c = 1 THEN "stored" ELSE "none"]
    /\ VideoIdle(<<NotDone>>)
    /\ mode = "image"
    /\ ResizeIdle(ResizeArgs(Undecodable, 4, 6))
    /\ EditIdle
    /\ ExportIdle

\* The successful items of a stored batch are exported, one by one and all
\* at once.
DownloadNext ==
    \/ DownloadClicks
    \/ DownloadAllClick
    \/ ExportResolves
    \/ ExportRejects
    \/ PauseEnds

DownloadSpec == DownloadInit /\ [][DownloadNext]_vars

-----------------------------------------------------------------------------
(* Properties of the batch orchestrator                                    *)

\* The list in generatedImages.
Results == generatedImages.items

\* Call c stores its list with setGeneratedImages(results) in this step,
\* and the list it stores.
Stores(c) == outcome[c] = "running" /\ outcome'[c] = "stored"
StoredList == generatedImages'.items

\* Call c returns in this step.
Ends(c) == Running(c) /\ pc'[c] = "idle"

\* Call c has stored its list.
Stored(c) == outcome[c] = "stored"

\* Call c has stored its list and the list is the one in generatedImages.
Shown(c) ==
    /\ Stored(c)
    /\ generatedImages # Null
    /\ Len(Results) = Len(tasks[c])
    /\ \A i \in 1..Len(tasks[c]) : Results[i] = tasks[c][i].value

IsTerminal(item) == item.status \in {"success", "error"}

\* The outcome of a spec rejected by the resolution check.
IsInvalidSpecItem(item) ==
    /\ item.status = "error"
    /\ item.error.text = "Invalid resolution: ${resolution}"
    /\ item.error.arg = item.requestedResolution

\* C1: when a batch submitted with a source image and a non-empty spec list
\* finishes, the list it stores has as many elements as the submitted spec
\* list, and every element is 'success' or 'error', never 'loading'.
C1_ResultLengthAndTerminal ==
    [][\A c \in Slots :
          Stores(c) =>
              /\ generatedImages'.kind = "list"
              /\ call[c].file # Null
              /\ Len(call[c].sizes) > 0
              /\ Len(StoredList) = Len(call[c].sizes)
              /\ \A i \in 1..Len(StoredList) : IsTerminal(StoredList[i])]_vars

\* A full-size batch finished with a success and a failure in its list.
C1_Witness ==
    \E c \in Slots :
        /\ Shown(c)
        /\ Len(call[c].sizes) = MaxSpecs
        /\ \E i, j \in 1..Len(Results) :
              Results[i].status = "success" /\ Results[j].status = "error"

\* Task i of call c goes from unsettled to fulfilled with an 'error' item in
\* this step.
TaskFails(c, i) ==
    /\ Len(tasks'[c]) = Len(tasks[c])
    /\ tasks[c][i].state # "fulfilled"
    /\ tasks'[c][i].state = "fulfilled"
    /\ tasks'[c][i].value.status = "error"

\* C2: a failing generation task (remote error, unusable response,
\* undecodable payload) ends as that task's own 'error' item: the batch-level
\* catch is entered only before any task exists, the step in which a task
\* fails leaves every other task, of its own and of any other call, as it
\* was and sets no batch error, and the stored list holds each task's own
\* value.
C2_FailureIsolated ==
    /\ [](\A c \in Slots : outcome[c] = "setupError" => tasks[c] = <<>>)
    /\ [][\A c \in Slots : \A i \in 1..Len(tasks[c]) :
            TaskFails(c, i) =>
                /\ \A j \in 1..Len(tasks[c]) :
                      j # i => tasks'[c][j] = tasks[c][j]
                /\ \A d \in Slots : d # c => tasks'[d] = tasks[d]
                /\ error' = error
                /\ outcome'[c] \in {"running", "stored"}]_vars
    /\ [][\A c \in Slots :
            Stores(c) =>
                /\ error' = error
                /\ Len(StoredList) = Len(tasks'[c])
                /\ \A i \in 1..Len(tasks'[c]) :
                      StoredList[i] = tasks'[c][i].value]_vars

\* Task 2 of 3 failed on an unusable remote response; tasks 1 and 3 succeeded.
C2_Witness ==
    \E c \in Slots :
        /\ Shown(c)
        /\ error = Null
        /\ Len(Results) = 3
        /\ Results[1].status = "success"
        /\ Results[2].status = "error"
        /\ Results[2].error =
              MsgWith("API returned text instead of an image: ${part.text}",
                      "blocked by policy")
        /\ Results[3].status = "success"

\* C3: element i of the stored list carries the requestedResolution of spec
\* i of the submitted list, for every i, whatever order the tasks settled in.
C3_ResultOrder ==
    [][\A c \in Slots :
          Stores(c) =>
              /\ Len(StoredList) = Len(call[c].sizes)
              /\ \A i \in 1..Len(call[c].sizes) :
                    StoredList[i].requestedResolution = call[c].sizes[i]]_vars

\* A stored list over three specs of which the first and the last differ.
C3_Witness ==
    \E c \in Slots :
        /\ Shown(c)
        /\ Len(call[c].sizes) = 3
        /\ call[c].sizes[1] # call[c].sizes[3]
        /\ Results[1].status = "success"
        /\ Results[3].status = "success"

\* C4: a spec whose width or height is no positive number is failed with the
\* invalid-resolution reason and no request is sent for it; every other spec
\* of the batch has one request sent, and in the stored list exactly the
\* non-positive specs carry that reason, each element at its spec's index.
C4_InvalidSpecNotDispatched ==
    /\ [](\A c \in Slots :
            tasks[c] # <<>> =>
              \A i \in 1..Len(call[c].sizes) :
                  IF PositiveSpec(call[c].sizes[i])
                  THEN /\ Len(requests[c][i]) = 1
                       /\ requests[c][i][1].targetResolution = call[c].sizes[i]
                       /\ tasks[c][i].state = "fulfilled" =>
                             ~IsInvalidSpecItem(tasks[c][i].value)
                  ELSE /\ requests[c][i] = <<>>
                       /\ tasks[c][i].state = "fulfilled"
                       /\ IsInvalidSpecItem(tasks[c][i].value)
                       /\ tasks[c][i].value.requestedResolution
                             = call[c].sizes[i])
    /\ [][\A c \in Slots :
            Stores(c) =>
              /\ Len(StoredList) = Len(call[c].sizes)
              /\ \A i \in 1..Len(call[c].sizes) :
                    /\ StoredList[i].requestedResolution = call[c].sizes[i]
                    /\ IsInvalidSpecItem(StoredList[i])
                          <=> ~PositiveSpec(call[c].sizes[i])]_vars

\* A stored list of three specs, exactly the second of zero width, the other
\* two succeeded.
C4_Witness ==
    \E c \in Slots :
        /\ Shown(c)
        /\ Len(call[c].sizes) = 3
        /\ call[c].sizes[2] = Str0x4
        /\ PositiveSpec(call[c].sizes[1]) /\ PositiveSpec(call[c].sizes[3])
        /\ IsInvalidSpecItem(Results[2])
        /\ requests[c][2] = <<>>
        /\ Results[1].status = "success" /\ Results[3].status = "success"

\* The list call c stores is complete: one terminal element per submitted
\* spec, element i for spec i.
CompleteResults(c) ==
    /\ generatedImages'.kind = "list"
    /\ Len(StoredList) = Len(call[c].sizes)
    /\ \A i \in 1..Len(call[c].sizes) :
          /\ IsTerminal(StoredList[i])
          /\ StoredList[i].requestedResolution = call[c].sizes[i]

\* C5 as claimed: a call that went past batch-level validation ends with a
\* complete result list, whatever the file read and the remote calls did.
C5_OnlyValidationFails ==
    [][\A c \in Slots :
          Ends(c) => Stores(c) /\ CompleteResults(c)]_vars

\* C5, amended: a call fails as a whole only when batch-level validation
\* fails or when reading the source file fails, which happens before any
\* task exists or any request is sent; in every other case, whatever the
\* remote calls and the decoding do, it ends with a complete result list.
C5_OnlyValidationOrReadFails ==
    [][\A c \in Slots :
          Ends(c) =>
            \/ /\ outcome'[c] = "setupError"
               /\ pc[c] = "reading"
               /\ tasks'[c] = <<>>
               /\ requests'[c] = <<>>
               /\ generatedImages' = Null
               /\ error' \in
                    {MessageOf(e, Msg("An error occurred during initial setup.")) :
                        e \in FileReadErrors}
            \/ /\ Stores(c)
               /\ CompleteResults(c)
               /\ error' = error]_vars

\* A full-size batch of valid specs in which every task failed, remotely or
\* in decoding, and whose list was stored all the same.
C5_Witness ==
    \E c \in Slots :
        /\ Shown(c)
        /\ Len(call[c].sizes) = MaxSpecs
        /\ \A i \in 1..Len(call[c].sizes) :
              PositiveSpec(call[c].sizes[i]) /\ Results[i].status = "error"
        /\ \E i \in 1..Len(call[c].sizes) :
              Results[i].error.text =
                  "Failed to load image to determine dimensions. The base64 data may be corrupt."

\* A submit event fails batch-level validation in this step.
ValidationFails == SubmitNoFile \/ SubmitNoSizes

\* The step sends no request and creates no task.
NothingDispatched == requests' = requests /\ tasks' = tasks /\ pc' = pc

\* C6: a call that fails batch-level validation (no source image, or an
\* empty spec list) sets an error message, sends no request, creates no
\* task, produces no result list and leaves isLoading false; a call goes
\* past validation only with a source image and a non-empty list.
C6_ValidationLeavesLoadingFalse ==
    /\ [][ValidationFails =>
            /\ error' \in {Msg("Please upload a screenshot."),
                           Msg("Please select at least one output size.")}
            /\ NothingDispatched
            /\ generatedImages' \in {Null, generatedImages}
            /\ isLoading' = FALSE]_vars
    /\ [][SubmitNoFile => error' = Msg("Please upload a screenshot.")]_vars
    /\ [][SubmitNoSizes =>
            /\ error' = Msg("Please select at least one output size.")
            /\ generatedImages' = Null]_vars
    /\ [](\A c \in Slots :
            outcome[c] # "none" =>
                call[c].file # Null /\ Len(call[c].sizes) > 0)

\* After a batch that stored its list the file was removed and a submit has
\* failed: the message is set, the stored list is still the one shown,
\* nothing is in flight and isLoading is false.
C6_Witness ==
    /\ screenshotFile = Null
    /\ error = Msg("Please upload a screenshot.")
    /\ \E c \in Slots : Shown(c)
    /\ NoCallInFlight
    /\ isLoading = FALSE

\* A step of the batch of call c, and not the start of a later call.
SameBatch(c) == ~(pc[c] = "idle" /\ outcome'[c] # outcome[c])

\* C7: within one batch a task's slot is written once: a fulfilled task
\* keeps its value (status, payload, reason) in every later step, a step
\* writes at most one slot of one call, and the step in which a task
\* settles writes the shown list only if it is the step in which the call
\* stores its list.
C7_SlotWrittenOnce ==
    [][\A c \in Slots :
        SameBatch(c) =>
          /\ \A i \in 1..Len(tasks[c]) :
                tasks[c][i].state = "fulfilled" =>
                    Len(tasks'[c]) = Len(tasks[c]) /\ tasks'[c][i] = tasks[c][i]
          /\ Len(tasks'[c]) = Len(tasks[c]) =>
                \A i, j \in 1..Len(tasks[c]) :
                    i # j => tasks'[c][i] = tasks[c][i]
                                \/ tasks'[c][j] = tasks[c][j]
          /\ tasks'[c] # tasks[c] =>
                /\ \A d \in Slots : d # c => tasks'[d] = tasks[d]
                /\ generatedImages' # generatedImages => Ends(c)]_vars

\* Two tasks are settled, one each way, while a third is still in flight.
C7_Witness ==
    \E c \in Slots :
        /\ pc[c] = "awaiting"
        /\ \E i, j, k \in 1..Len(tasks[c]) :
              /\ tasks[c][i].state = "fulfilled"
              /\ tasks[c][i].value.status = "success"
              /\ tasks[c][j].state = "fulfilled"
              /\ tasks[c][j].value.status = "error"
              /\ tasks[c][k].state = "pending"

\* C8: no retry: a batch sends at most one request per spec, and a task that
\* failed stays failed with its reason, no request following its failure.
C8_NoRetry ==
    /\ [](\A c \in Slots : \A i \in 1..Len(requests[c]) :
            Len(requests[c][i]) <= 1)
    /\ [][\A c \in Slots :
            SameBatch(c) =>
              \A i \in 1..Len(tasks[c]) :
                tasks[c][i].state = "fulfilled"
                  /\ tasks[c][i].value.status = "error" =>
                    /\ Len(tasks'[c]) = Len(tasks[c])
                    /\ tasks'[c][i] = tasks[c][i]
                    /\ requests'[c][i] = requests[c][i]]_vars

\* A stored batch in which a request was rejected, with the one request sent.
C8_Witness ==
    \E c \in Slots :
        /\ Shown(c)
        /\ \E i \in 1..Len(Results) :
              /\ Results[i].status = "error"
              /\ Results[i].error = Msg("Network request failed")
              /\ Len(requests[c][i]) = 1

\* C9: every valid spec's request is sent before the outcome of any task is
\* processed: when a valid spec's task has left 'pending', a request is out
\* for every valid spec, and requests are sent only in the step that creates
\* the tasks.
C9_AllDispatchedFirst ==
    /\ [](\A c \in Slots : \A i \in 1..Len(tasks[c]) :
            PositiveSpec(call[c].sizes[i]) /\ tasks[c][i].state # "pending" =>
                \A j \in 1..Len(tasks[c]) :
                    PositiveSpec(call[c].sizes[j]) => Len(requests[c][j]) >= 1)
    /\ [][\A c \in Slots :
            requests'[c] # requests[c] /\ requests'[c] # <<>> =>
                tasks[c] = <<>> /\ pc[c] = "reading"]_vars

\* Three valid specs, a request out for each, no response processed yet.
C9_Witness ==
    \E c \in Slots :
        /\ pc[c] = "awaiting"
        /\ Len(tasks[c]) = 3
        /\ \A i \in 1..Len(tasks[c]) :
              /\ PositiveSpec(call[c].sizes[i])
              /\ Len(requests[c][i]) = 1
              /\ tasks[c][i].state = "pending"

-----------------------------------------------------------------------------
(* Properties of the long-operation poller                                 *)

\* The step belongs to the call followed: no new call begins in it.
SameCall == vcall' = vcall

\* The capability reports done with a locator after its not-done reports.
EndsWithLocator ==
    /\ script[Len(script)].kind = "handle"
    /\ script[Len(script)].uri \in Locators

\* C10: against a capability that reports not-done k times (k >= 0) and then
\* done with a locator, the call returns exactly that locator, having emitted
\* at least 3 progress events, the last being the 'finalizing' one.
C10_ReturnsLocator ==
    vpc = "done" /\ EndsWithLocator =>
        /\ vresult = VideoFulfilled(script[Len(script)].uri)
        /\ Len(CallProgress) >= 3
        /\ CallProgress[Len(CallProgress)] = FinalizingMsg
        /\ \A n \in 1..(Len(CallProgress) - 1) :
              CallProgress[n] # FinalizingMsg

\* Not-done twice, then done with a locator: the call has returned it.
C10_Witness ==
    /\ vpc = "done"
    /\ Len(CallScript) = 3
    /\ EndsWithLocator
    /\ vresult.state = "fulfilled"
    /\ Len(CallProgress) = 5

\* The capability reports done without a locator after its not-done reports.
EndsWithoutLocator == script[Len(script)] = Handle(TRUE, NoLocator)

\* C11: against a capability whose handle reports done and carries no
\* locator, the call fails with the no-download-link error, which is none of
\* the errors a capability call throws, it returns no locator, and it has
\* submitted once and queried once per not-done report; after that no
\* submission and no query follows.
C11_NoLocatorFails ==
    /\ [](vpc = "done" /\ EndsWithoutLocator =>
            /\ vresult.state = "rejected"
            /\ vresult.reason.isError
            /\ vresult.reason.message =
                  Msg("Video generation completed, but no download link was found.")
            /\ vresult.reason \notin VideoThrown
            /\ CallSubmits = 1
            /\ CallQueries = Len(CallScript) - 1)
    /\ [][vpc = "done" /\ SameCall =>
            submits' = submits /\ queries' = queries]_vars

\* Not-done twice, then done without a locator: the call has failed.
C11_Witness ==
    /\ vpc = "done"
    /\ Len(CallScript) = 3
    /\ EndsWithoutLocator
    /\ vresult.state = "rejected"
    /\ CallQueries = 2

\* The generateVideos call fails.
SubmissionFails == CallScript[1].kind = "throw"

IsCheckingMsg(m) ==
    m.text = "Checking generation status... (Attempt ${checks})"

\* C12: when the generateVideos call fails, the call ends at once with that
\* failure: one submission, no status query, no wait, and no progress event
\* other than the one emitted before the submission.
C12_SubmissionFailureTerminal ==
    SubmissionFails /\ vpc \notin {"idle", "submitting"} =>
        /\ vpc = "done"
        /\ vresult = VideoRejected(CallScript[1].err)
        /\ CallSubmits = 1
        /\ CallQueries = 0
        /\ checks = 0
        /\ CallDelays = <<>>
        /\ CallProgress = <<Msg("Sending request to the video model...")>>
        /\ \A n \in 1..Len(CallProgress) : ~IsCheckingMsg(CallProgress[n])

\* The submission failed with a thrown value that is no Error, and the call
\* has ended with it.
C12_Witness ==
    /\ SubmissionFails
    /\ vpc = "done"
    /\ vresult = VideoRejected(NonErrorValue)
    /\ CallSubmits = 1

\* The progress event of attempt n.
AttemptMsg(n) ==
    [text |-> "Checking generation status... (Attempt ${checks})",
     arg |-> FormatNumber(n)]

\* The positions of the attempt events among the messages of the call.
AttemptPositions ==
    {n \in 1..Len(CallProgress) : IsCheckingMsg(CallProgress[n])}

\* C13: a poll tick emits one progress event with the attempt counter and
\* sends one status query; the counter is 1 on the first tick and grows by 1
\* with every tick, so the attempt events of a call are those of 1, 2, ...
\* in order and no two of them are equal.
C13_AttemptCounter ==
    /\ [](/\ checks = CallQueries
          /\ Cardinality(AttemptPositions) = checks
          /\ \A n \in 1..checks : CallProgress[2 + n] = AttemptMsg(n)
          /\ \A i, j \in AttemptPositions :
                i # j => CallProgress[i] # CallProgress[j])
    /\ [][SameCall /\ (checks' # checks \/ queries' # queries) =>
            /\ vpc = "sleeping"
            /\ checks' = checks + 1
            /\ queries' = queries + 1
            /\ progress' = Append(progress, AttemptMsg(checks + 1))]_vars

\* The tenth tick has happened: its event carries the two-digit counter.
C13_Witness ==
    /\ checks = 10
    /\ CallProgress[12].arg = <<"1", "0">>
    /\ CallProgress[3].arg = <<"1">>

\* C14: once the caller has left the video generator, no poll tick sends a
\* status query or emits a progress event.
C14_AbandonStopsPoller ==
    [][mode # "video" /\ vpc = "sleeping" =>
          queries' = queries /\ progress' = progress]_vars

\* A capability call is outstanding and its answer is a failure.
CallFails ==
    /\ vpc \in {"submitting", "polling"}
    /\ Answer.kind = "throw"

\* C15: when the submission or a status query fails, the call ends with that
\* error and nothing else: the step that takes the failure settles the
\* returned promise with the thrown value, whether an Error or not, and no
\* submission or status query is made in it or after it.
C15_ErrorEndsCall ==
    /\ [][CallFails /\ vpc' # vpc =>
            /\ vpc' = "done"
            /\ vresult' = VideoRejected(Answer.err)
            /\ submits' = submits
            /\ queries' = queries]_vars
    /\ [][vpc = "done" /\ SameCall =>
            /\ vresult' = vresult
            /\ submits' = submits
            /\ queries' = queries]_vars
    /\ [](vpc = "done" /\ script[Len(script)].kind = "throw" =>
            /\ vresult = VideoRejected(script[Len(script)].err)
            /\ CallSubmits = 1
            /\ CallQueries = Len(CallScript) - 1)

\* The third status query failed with a thrown value that is no Error.
C15_Witness ==
    /\ vpc = "done"
    /\ CallQueries = 3
    /\ script[Len(script)] = Throws(NonErrorValue)
    /\ vresult = VideoRejected(NonErrorValue)

\* C16: a status query is sent only while no capability call is outstanding
\* and the handle held is not done; a handle seen done is never replaced and
\* no query follows it, and the settled result does not change.
C16_Sequential ==
    /\ [][queries' # queries =>
            /\ queries' = queries + 1
            /\ vpc = "sleeping"
            /\ vpc' = "polling"
            /\ ~operation.done]_vars
    /\ [][operation.done /\ SameCall =>
            /\ operation' = operation
            /\ queries' = queries
            /\ submits' = submits]_vars
    /\ [](operation.done => vpc = "done")
    /\ [][vpc = "done" /\ SameCall =>
            vresult' = vresult /\ vpc' = "done"]_vars

\* A handle was seen done after three queries, and the caller has since
\* switched the mode.
C16_Witness ==
    /\ operation.done
    /\ operation.uri \in Locators
    /\ CallQueries = 3
    /\ mode = "image"

\* The timers fire and the capability answers every call.
VideoFairness ==
    /\ WF_vars(SubmitReturns)
    /\ WF_vars(SubmitThrows)
    /\ WF_vars(PollTick)
    /\ WF_vars(PollReturns)
    /\ WF_vars(PollThrows)

VideoFairSpec == VideoInit /\ [][VideoNext]_vars /\ VideoFairness

\* C17: the loop has no attempt ceiling: while the call waits or polls, the
\* handle held is not done and the call has not ended; the call ends exactly
\* at the first answer that is done or a failure, after one query per
\* not-done report, however many there are; and a call against a capability
\* that comes to report done or to fail does end.
C17_NoAttemptCeiling ==
    /\ [](vpc \in {"sleeping", "polling"} =>
            ~operation.done /\ vresult = VideoPending)
    /\ [](vpc = "done" =>
            /\ CallSubmits + CallQueries = Len(CallScript)
            /\ CallQueries = Len(CallScript) - 1
            /\ operation.done \/ script[Len(script)].kind = "throw")
    /\ [][vpc = "sleeping" /\ vpc' # vpc => vpc' = "polling"]_vars
    /\ (vpc = "submitting" ~> vpc = "done")

\* The call ended after as many status queries as the longest run of
\* not-done reports.
C17_Witness ==
    /\ vpc = "done"
    /\ CallQueries = MaxNotDone
    /\ operation.done

\* C18: one wait precedes every status query, and every wait is the same 10
\* seconds, whatever the number of the tick and whatever the capability
\* reported.
C18_FixedInterval ==
    /\ Len(CallDelays) = CallQueries + (IF vpc = "sleeping" THEN 1 ELSE 0)
    /\ \A n \in 1..Len(delays) : delays[n] = delays[1] /\ delays[n] = 10000

\* Four waits have passed and the call has ended.
C18_Witness ==
    /\ vpc = "done"
    /\ Len(CallDelays) = 4
    /\ CallQueries = 4

-----------------------------------------------------------------------------
(* Properties of the resize engine                                         *)

\* The call succeeded; what the returned data URL encodes.
Resolved == rpc = "settled" /\ rresult.state = "fulfilled"
Output == rresult.value.dataURL

\* The source is wider than, or of the same aspect as, the target: the
\* aspect ratios compared as fractions of integers.
SourceWider ==
    rargs.img.width * rargs.targetHeight > rargs.targetWidth * rargs.img.height
SourceSameAspect ==
    rargs.img.width * rargs.targetHeight = rargs.targetWidth * rargs.img.height

\* a >= 0 and a <= b, for doubles.
FNonNegative(a) == Len(a.man) = 0 \/ ~a.neg
FAtMost(a, b) == ~FGreater(a, b)

\* C19: whenever resizeImageBase64 succeeds, the canvas it encodes is
\* exactly targetWidth wide and targetHeight high, and wholly filled,
\* whether the source is wider than the target aspect, taller, or of
\* exactly that aspect.
C19_OutputHasTargetSize ==
    Resolved =>
        /\ Output.width = rargs.targetWidth
        /\ Output.height = rargs.targetHeight
        /\ Output.fillRect = <<0, 0, Output.width, Output.height>>
        /\ canvas = Output

\* A source of twice the target's size and of its aspect, resized into a
\* target that is not square.
C19_Witness ==
    /\ Resolved
    /\ SourceSameAspect
    /\ rargs.img.width = 42
    /\ rargs.targetWidth = 21
    /\ rargs.targetHeight = 19
    /\ Output.width = 21
    /\ Output.height = 19

\* C20: the source is placed by the letterbox rule: when it is wider than
\* the target aspect, drawWidth = targetWidth, drawHeight = drawWidth /
\* srcAspect, x = 0 and y = (targetHeight - drawHeight) / 2; otherwise
\* drawHeight = targetHeight, drawWidth = drawHeight * srcAspect, y = 0 and
\* x = (targetWidth - drawWidth) / 2; 800x400 into 300x300 is drawn 300 by
\* 150 at x = 0, y = 75; and in every case the rectangle drawn lies inside
\* the canvas.
C20_LetterboxPlacement ==
    Resolved =>
        LET at == Output.at
            tw == FromInt(rargs.targetWidth)
            th == FromInt(rargs.targetHeight)
            srcAspect ==
                FDiv(FromInt(rargs.img.width), FromInt(rargs.img.height))
        IN /\ IF SourceWider
              THEN /\ at.drawWidth = tw
                   /\ at.drawHeight = FDiv(at.drawWidth, srcAspect)
                   /\ at.x = FromInt(0)
                   /\ at.y = FDiv(FSub(th, at.drawHeight), FromInt(2))
              ELSE /\ at.drawHeight = th
                   /\ at.drawWidth = FMul(at.drawHeight, srcAspect)
                   /\ at.y = FromInt(0)
                   /\ at.x = FDiv(FSub(tw, at.drawWidth), FromInt(2))
           /\ (/\ rargs.img.width = 800 /\ rargs.img.height = 400
               /\ rargs.targetWidth = 300 /\ rargs.targetHeight = 300) =>
                  /\ at.drawWidth = FromInt(300)
                  /\ at.drawHeight = FromInt(150)
                  /\ at.x = FromInt(0)
                  /\ at.y = FromInt(75)
           /\ FNonNegative(at.x)
           /\ FNonNegative(at.y)
           /\ FAtMost(at.drawWidth, tw)
           /\ FAtMost(at.drawHeight, th)

-----------------------------------------------------------------------------
(* Properties of the size list                                             *)

NoDuplicates(list) ==
    \A i, j \in 1..Len(list) : list[i] = list[j] => i = j

\* C29: selectedSizes never holds the same 'WxH' string twice, after any
\* sequence of purpose changes, platform selections, preset toggles,
\* custom-size additions and removals.
C29_SizesUnique == NoDuplicates(selectedSizes)

\* A full list that holds a preset and the custom size 12x5, while the size
\* 12x5 is typed into the fields once more, with a leading zero.
C29_Witness ==
    /\ Len(selectedSizes) = MaxSizes
    /\ Includes(selectedSizes, Literal(12, 5))
    /\ Includes(selectedSizes, presetOptions[9])
    /\ customWidth = <<"0", "1", "2">>
    /\ customHeight = <<"5">>

-----------------------------------------------------------------------------
(* Properties of the batch orchestrator under purpose changes              *)

\* C27: a purpose change leaves generatedImages null, and generatedImages
\* goes from null to a list only in the step of a submit that starts a
\* batch: no batch submitted before a purpose change stores its results
\* after it.
C27_PurposeChangeClears ==
    [][/\ purpose' # purpose => generatedImages' = Null
       /\ generatedImages = Null /\ generatedImages' # Null =>
              \E c \in Slots : pc[c] = "idle" /\ pc'[c] = "reading"]_vars

NoLoadingItem ==
    generatedImages # Null =>
        \A i \in 1..Len(Results) : Results[i].status # "loading"

\* C30: every call that starts a batch ends, and isLoading is false when it
\* has, whether the batch stores its list or fails as a whole; and while
\* isLoading is false no element of generatedImages is 'loading'.
C30_LoadingEnds ==
    /\ [](isLoading = FALSE => NoLoadingItem)
    /\ \A c \in Slots : Running(c) ~> (~Running(c) /\ isLoading = FALSE)

\* A batch ended with a stored list that holds a success and a failure, and
\* isLoading is false again.
C30_Witness ==
    \E c \in Slots :
        /\ Shown(c)
        /\ isLoading = FALSE
        /\ \E i, j \in 1..Len(Results) :
              Results[i].status = "success" /\ Results[j].status = "error"

-----------------------------------------------------------------------------
(* Properties of the task results and the requests                         *)

SuccessFields ==
    {"base64", "actualWidth", "actualHeight", "requestedResolution", "status"}
ErrorFields == {"requestedResolution", "status", "error"}

\* Task i of call c goes from unsettled to fulfilled with a 'success' item.
TaskSucceeds(c, i) ==
    /\ Len(tasks'[c]) = Len(tasks[c])
    /\ tasks[c][i].state # "fulfilled"
    /\ tasks'[c][i].state = "fulfilled"
    /\ tasks'[c][i].value.status = "success"

\* C24: every element of a stored list is a 'success' item that carries a
\* payload with the width and height decoded from it, or an 'error' item that
\* carries a reason and no payload; and a task becomes 'success' only from
\* waiting on the decoder with the payload the remote call returned, when
\* that payload decodes.
C24_TerminalShape ==
    /\ [][\A c \in Slots :
            Stores(c) =>
              \A i \in 1..Len(StoredList) :
                \/ /\ StoredList[i].status = "success"
                   /\ DOMAIN StoredList[i] = SuccessFields
                   /\ StoredList[i].base64 \in Payloads
                   /\ Decodable(StoredList[i].base64)
                   /\ StoredList[i].actualWidth
                         = DecodedWidth(StoredList[i].base64)
                   /\ StoredList[i].actualHeight
                         = DecodedHeight(StoredList[i].base64)
                \/ /\ StoredList[i].status = "error"
                   /\ DOMAIN StoredList[i] = ErrorFields
                   /\ Len(StoredList[i].error.text) > 0]_vars
    /\ [][\A c \in Slots : \A i \in 1..Len(tasks[c]) :
            TaskSucceeds(c, i) =>
                /\ tasks[c][i].state = "decoding"
                /\ Decodable(tasks[c][i].payload)
                /\ tasks'[c][i].value.base64 = tasks[c][i].payload]_vars

\* A stored list with a success and with a failure of the decoder on a
\* payload the remote call returned.
C24_Witness ==
    \E c \in Slots :
        /\ Shown(c)
        /\ \E i, j \in 1..Len(Results) :
              /\ Results[i].status = "success"
              /\ Results[j].status = "error"
              /\ Results[j].error.text =
                    "Failed to load image to determine dimensions. The base64 data may be corrupt."

\* The generation size of a target side: Math.round(side / 2) is the g with
\* 2g - 1 <= side <= 2g.
IsRoundedHalf(g, side) == g >= 1 /\ side \in {2 * g - 1, 2 * g}

\* C26: for a spec WxH of positive integers the request carries the
\* generation resolution round(W/2) x round(H/2), each part at least 1,
\* or WxH itself when the purpose is 'og-image', and always the spec's own
\* WxH as target resolution.
C26_GenerationResolution ==
    \A c \in Slots :
      \A i \in 1..Len(requests[c]), w \in 1..MaxSide, h \in 1..MaxSide :
        call[c].sizes[i] = Literal(w, h) =>
            /\ Len(requests[c][i]) = 1
            /\ requests[c][i][1].targetResolution = Literal(w, h)
            /\ requests[c][i][1].purpose = call[c].purpose
            /\ IF call[c].purpose = "og-image"
               THEN requests[c][i][1].generationResolution = Literal(w, h)
               ELSE \E gw \in 1..MaxSide, gh \in 1..MaxSide :
                       /\ IsRoundedHalf(gw, w)
                       /\ IsRoundedHalf(gh, h)
                       /\ requests[c][i][1].generationResolution
                             = Literal(gw, gh)

\* The request of the spec 1x9 under the purpose 'app-store': generated at
\* 1x5.
C26_Witness ==
    \E c \in Slots :
        /\ call[c].sizes = <<Literal(1, 9)>>
        /\ call[c].purpose = "app-store"
        /\ Len(requests[c]) = 1
        /\ Len(requests[c][1]) = 1
        /\ requests[c][1][1].generationResolution = Literal(1, 5)
        /\ requests[c][1][1].targetResolution = Literal(1, 9)

-----------------------------------------------------------------------------
(* Properties of the resize engine: identity, failures, fill               *)

SourceHasTargetSize ==
    /\ rargs.img.width = rargs.targetWidth
    /\ rargs.img.height = rargs.targetHeight

\* C22: resizing an image that already has the target size draws it at
\* x = 0, y = 0 with drawWidth = targetWidth and drawHeight = targetHeight
\* on a canvas of the source's size, over a fill of the source's top-left
\* colour, which for a solid-colour image is its content.
C22_SameSizeIdentity ==
    Resolved /\ SourceHasTargetSize =>
        /\ Output.at.x = FromInt(0)
        /\ Output.at.y = FromInt(0)
        /\ Output.at.drawWidth = FromInt(rargs.targetWidth)
        /\ Output.at.drawHeight = FromInt(rargs.targetHeight)
        /\ Output.width = rargs.img.width
        /\ Output.height = rargs.img.height
        /\ Output.image = rargs.img
        /\ Output.fillStyle = RgbString(rargs.img.topLeft)

InvalidDimensions == rargs.targetWidth <= 0 \/ rargs.targetHeight <= 0

\* C23: a call ends in an error whenever the input does not decode (with the
\* decode error) and whenever the target width or height is zero or
\* negative (no output is returned).
C23_FailuresReported ==
    rpc = "settled" =>
        /\ ~rargs.img.ok =>
              /\ rresult.state = "rejected"
              /\ rresult.reason.message.text =
                    "Failed to load image for resizing."
        /\ InvalidDimensions => rresult.state = "rejected"

\* The colour a fillStyle of the form rgb(r, g, b) sets: the three numbers
\* between the separators.
ColourOf(style) ==
    [k \in 1..3 |-> DecimalValue(SelectSeq(Split(style, ",")[k], IsDigit))]

\* The pixel columns (rows) looked at: all of a canvas side of at most
\* three pixels, the ends and the middle of a longer one.
SampleCoords(n) ==
    IF n <= 3 THEN 0..(n - 1) ELSE {0, 1, n \div 2, n - 2, n - 1}

\* The columns p that lie wholly outside the span of length len drawn from
\* start: p + 1 <= start or p - start >= len.
CoordsOutside(n, start, len) ==
    {p \in SampleCoords(n) :
        \/ ~FGreater(FromInt(p + 1), start)
        \/ ~FGreater(len, FSub(FromInt(p), start))}

InFillRect(cv, px, py) ==
    /\ cv.fillRect[1] <= px /\ px < cv.fillRect[1] + cv.fillRect[3]
    /\ cv.fillRect[2] <= py /\ py < cv.fillRect[2] + cv.fillRect[4]

\* What the pixel (px, py) of the painted canvas shows: the source where the
\* drawn rectangle reaches it, else the fill where fillRect covered it.
PixelShows(cv, px, py, outX, outY) ==
    IF px \notin outX /\ py \notin outY THEN [from |-> "image", rgb |-> <<>>]
    ELSE IF InFillRect(cv, px, py)
    THEN [from |-> "fill", rgb |-> ColourOf(cv.fillStyle)]
    ELSE [from |-> "none", rgb |-> <<>>]

PixelsAsFilled(cv, colour, outX, outY) ==
    \A px \in SampleCoords(cv.width), py \in SampleCoords(cv.height) :
        px \in outX \/ py \in outY =>
            PixelShows(cv, px, py, outX, outY) =
                [from |-> "fill", rgb |-> colour]

\* C25: the fill covers the whole output canvas and has the colour of the
\* source's top-left pixel, so every pixel outside the rectangle the source
\* is drawn into shows exactly that colour.
C25_FillIsTopLeftColour ==
    Resolved =>
        /\ Output.fillRect = <<0, 0, Output.width, Output.height>>
        /\ ColourOf(Output.fillStyle) = rargs.img.topLeft
        /\ PixelsAsFilled(Output, rargs.img.topLeft,
                CoordsOutside(Output.width, Output.at.x, Output.at.drawWidth),
                CoordsOutside(Output.height, Output.at.y, Output.at.drawHeight))

\* The 800x400 source with an orange top-left pixel, letterboxed into
\* 300x300: the rows above y = 75 are outside the drawn rectangle, the
\* middle row is inside.
C25_Witness ==
    /\ Resolved
    /\ rargs.img.width = 800
    /\ rargs.targetHeight = 300
    /\ rargs.img.topLeft = <<255, 128, 7>>
    /\ Output.at.y = FromInt(75)
    /\ CoordsOutside(Output.height, Output.at.y, Output.at.drawHeight) =
          {0, 1, 298, 299}
    /\ Output.fillStyle = RgbString(<<255, 128, 7>>)


-----------------------------------------------------------------------------
(* Properties of handleDownload and handleDownloadAll                      *)

\* The resolutions that have a flag or a handleDownload call.
ExportedResolutions ==
    DOMAIN upscalingState
    \cup {exports[k].imageData.requestedResolution : k \in 1..Len(exports)}

\* C28: at every moment and for every resolution r, upscalingState[r] is
\* true if a handleDownload call for r is in flight and false if none is,
\* whether the calls come from the download buttons, from handleDownloadAll
\* or from both at overlapping times.
C28_FlagTracksExports ==
    \A r \in ExportedResolutions : IsUpscaling(r) <=> InFlight(r)

\* A step of handleDownload or handleDownloadAll.
ExportStep ==
    \/ exports' # exports
    \/ downloads' # downloads
    \/ upscalingState' # upscalingState
    \/ dall' # dall

\* The calls that clicked their link.
DoneExports == {k \in 1..Len(exports) : exports[k].state = "done"}

\* The widths and heights of the 'app-store' sizes, as numbers.
AppStoreSides == {<<1290, 2796>>, <<2048, 2732>>}

\* The image of size w by h is placed in a canvas W by H as the letterbox
\* rule says, the aspects compared as fractions of integers: it touches
\* two opposite sides and lies between the other two.
Letterboxed(at, w, h, W, H) ==
    IF w * H > W * h
    THEN /\ at.x = FromInt(0)
         /\ at.drawWidth = FromInt(W)
         /\ FNonNegative(at.y)
         /\ FAtMost(at.drawHeight, FromInt(H))
    ELSE /\ at.y = FromInt(0)
         /\ at.drawHeight = FromInt(H)
         /\ FNonNegative(at.x)
         /\ FAtMost(at.drawWidth, FromInt(W))

\* The link is the export of the item: named after the requested size WxH,
\* it holds a canvas W wide and H high, wholly filled, with the image of
\* the item, of its actual size, drawn by the letterbox rule.
ExportOf(link, item) ==
    \E z \in AppStoreSides :
        /\ item.requestedResolution = Literal(z[1], z[2])
        /\ link.download =
              <<"app-store-screenshot-", item.requestedResolution, ".png">>
        /\ DOMAIN link.href = {"dataURL"}
        /\ link.href.dataURL.width = z[1]
        /\ link.href.dataURL.height = z[2]
        /\ link.href.dataURL.fillRect = <<0, 0, z[1], z[2]>>
        /\ link.href.dataURL.image.width = item.actualWidth
        /\ link.href.dataURL.image.height = item.actualHeight
        /\ Letterboxed(link.href.dataURL.at,
                       item.actualWidth, item.actualHeight, z[1], z[2])

\* The item of call k is an element of the batch result as it is now.
StillListed(k) ==
    \E i \in 1..Len(ShownItems) : ShownItems[i] = exports[k].imageData

\* Calls for the same payload and the same target size clicked the same
\* link, whoever called them and whatever was exported in between.
SameInputsSameOutput ==
    \A j, k \in DoneExports :
        (/\ exports[j].imageData.base64 = exports[k].imageData.base64
         /\ exports[j].imageData.requestedResolution =
                exports[k].imageData.requestedResolution)
        => exports[j].link = exports[k].link

\* C21: handleDownload leaves every element of generatedImages as it is,
\* however often it runs on a successful item; every link it clicks is the
\* export of its item at the requested size, the item being in the list as
\* it was given; and the links it clicks for the same payload and the same
\* target size are the same.
C21_ExportIdempotent ==
    /\ [][ExportStep => generatedImages' = generatedImages]_vars
    /\ [](\A k \in DoneExports :
            StillListed(k) /\ ExportOf(exports[k].link, exports[k].imageData))
    /\ []SameInputsSameOutput

\* One successful item has been exported twice, by its button and by
\* Download All, and is still in the list.
C21_Witness ==
    \E j, k \in DoneExports :
        /\ j < k
        /\ exports[j].imageData = exports[k].imageData
        /\ exports[j].caller.kind # exports[k].caller.kind
        /\ exports[j].link = downloads[1]
        /\ \E i \in 1..Len(ShownItems) : ShownItems[i] = exports[j].imageData

====
